---- MODULE Spec2Model ----
(***************************************************************************)
(* Model of the rank-evaluation core of rankeval:                          *)
(*   src/src/sentence/ranking.py            (normalize, invert, Ranking)   *)
(*   src/src/evaluation/ranking/segment.py  (kendall_tau, ndgc_err)        *)
(*   src/src/evaluation/ranking/set.py      (kendall_tau_set)              *)
(*                                                                         *)
(* Number representation.  The elements of a Ranking are Python floats     *)
(* that are whole numbers or whole numbers plus one half (the 'middle'     *)
(* tie policy).  The model stores every rank value as its count of HALVES: *)
(* the float x is the integer 2x, so 1.0 is 2, 1.5 is 3 and the sentinel   *)
(* -1 is -2.  num(i) converts a Python number i to this representation and *)
(* units(h) converts a whole rank back to a Python int.  Counts (pairs,    *)
(* ties, lengths) are plain integers.  Floats that are quotients (tau,     *)
(* percentages, gains, err) are exact fractions [kind, num, den].          *)
(***************************************************************************)
EXTENDS Integers, Sequences, FiniteSets

VARIABLES
    predicted_rank_vector,   \* segment input: the predicted Ranking
    original_rank_vector,    \* segment input: the gold Ranking
    predicted_rank_vectors,  \* set input: sequence of predicted Rankings
    original_rank_vectors,   \* set input: sequence of gold Rankings
    fn,                      \* name of the function called last ("none" before any call)
    arg,                     \* the Ranking the last normalize/invert call was applied to
    kwargs,                  \* keyword options of the last call
    result                   \* outcome of the last call: [raised, value]

vars == <<predicted_rank_vector, original_rank_vector, predicted_rank_vectors,
          original_rank_vectors, fn, arg, kwargs, result>>

(***************************************************************************)
(* Bounds                                                                  *)
(***************************************************************************)
MaxLen == 3      \* longest rank vector of a segment-level call
MaxRank == 2     \* raw rank values are 1..MaxRank (and -1 on the gold side)
MaxSegs == 2     \* most segments of a set-level call
MaxSliceValues == 2   \* most values assigned to a slice or added by +=
MaxStep == 2     \* largest step of an extended slice
MaxCopies == 2   \* largest n of r *= n
MaxK == 2        \* largest cut-off k given to avg_ndgc_err (0: none given)

(***************************************************************************)
(* Numbers                                                                 *)
(***************************************************************************)
num(i) == 2 * i
units(h) == h \div 2

Abs(x) == IF x < 0 THEN -x ELSE x

RECURSIVE GCD(_, _)
GCD(a, b) == IF b = 0 THEN a ELSE GCD(b, a % b)

\* the float n/d (d # 0) as a reduced fraction with positive denominator
Frac(n, d) ==
    LET g == GCD(Abs(n), Abs(d))
        s == IF d < 0 THEN -1 ELSE 1
    IN [kind |-> "float", num |-> (s * n) \div g, den |-> (s * d) \div g]

None == [kind |-> "None", num |-> 0, den |-> 1]
nan == [kind |-> "nan", num |-> 0, den |-> 1]

\* the arithmetic cancels common factors ahead of each product, which leaves
\* the value as it is and keeps the intermediate integers small
FAdd(a, b) ==
    LET g == GCD(a.den, b.den)
    IN Frac(a.num * (b.den \div g) + b.num * (a.den \div g), (a.den \div g) * b.den)
FSub(a, b) ==
    LET g == GCD(a.den, b.den)
    IN Frac(a.num * (b.den \div g) - b.num * (a.den \div g), (a.den \div g) * b.den)
FMul(a, b) ==
    LET g1 == GCD(Abs(a.num), b.den)
        g2 == GCD(Abs(b.num), a.den)
    IN Frac((a.num \div g1) * (b.num \div g2), (a.den \div g2) * (b.den \div g1))
FDivInt(a, i) ==
    LET g == GCD(Abs(a.num), Abs(i))
    IN Frac(a.num \div g, a.den * (i \div g))
FLess(a, b) ==
    LET g == GCD(a.den, b.den)
    IN a.num * (b.den \div g) < b.num * (a.den \div g)

\* the element of a singleton set; The({F(x) : x \in {e}}) is F(e) with e
\* evaluated once
The(S) == CHOOSE x \in S : TRUE

\* Python truth value of a float-or-None: None and 0.0 are false
Truthy(x) == x.kind # "None" /\ x.num # 0

SetMin(S) == CHOOSE x \in S : \A y \in S : x <= y

(***************************************************************************)
(* sentence/ranking.py                                                     *)
(***************************************************************************)
Policies == {"minimize", "floor", "ceiling", "middle"}

\* indexes with a slip: only the first position holding the rank is found
indexes_first_only_slip(ranking_list, neededrank) ==
    {index \in DOMAIN ranking_list :
        /\ ranking_list[index] = neededrank
        /\ \A other \in 1..(index - 1) : ranking_list[other] # neededrank}

\* indexes(ranking_list, neededrank): positions holding the rank
indexes(ranking_list, neededrank) ==
    {index \in DOMAIN ranking_list : ranking_list[index] = neededrank}

\* ranking_list.count(x)
count(ranking_list, x) == Cardinality(indexes(ranking_list, x))

\* _handle_tie with a slip: the 'ceiling' rank of a tied block is taken one
\* position too high (modified_rank+count instead of modified_rank+count-1)
_handle_tie_ceiling_slip(ranking_list, original_rank, modified_rank, ties_handling) ==
    LET c == count(ranking_list, original_rank) IN
    IF c <= 1 THEN <<modified_rank, modified_rank>>
    ELSE IF ties_handling = "minimize" THEN <<modified_rank, modified_rank>>
    ELSE IF ties_handling = "floor" THEN <<modified_rank, modified_rank + num(c) - num(1)>>
    ELSE IF ties_handling = "ceiling"
        THEN <<modified_rank + num(c), modified_rank + num(c) - num(1)>>
    ELSE IF ties_handling = "middle"
        THEN <<modified_rank - num(1) + (c + 1), modified_rank + num(c) - num(1)>>
    ELSE <<modified_rank, modified_rank>>

\* _handle_tie with a slip: the 'middle' rank of a tied block is
\* modified_rank-1 + (count+1.00), the division by 2 forgotten
_handle_tie_middle_slip(ranking_list, original_rank, modified_rank, ties_handling) ==
    LET c == count(ranking_list, original_rank) IN
    IF c <= 1 THEN <<modified_rank, modified_rank>>
    ELSE IF ties_handling = "minimize" THEN <<modified_rank, modified_rank>>
    ELSE IF ties_handling = "floor" THEN <<modified_rank, modified_rank + num(c) - num(1)>>
    ELSE IF ties_handling = "ceiling"
        THEN <<modified_rank + num(c) - num(1), modified_rank + num(c) - num(1)>>
    ELSE IF ties_handling = "middle"
        THEN <<modified_rank - num(1) + num(c + 1), modified_rank + num(c) - num(1)>>
    ELSE <<modified_rank, modified_rank>>

\* _handle_tie: <<new value of the rank, rank the iteration continues with>>
_handle_tie(ranking_list, original_rank, modified_rank, ties_handling) ==
    LET c == count(ranking_list, original_rank) IN
    IF c <= 1 THEN <<modified_rank, modified_rank>>
    ELSE IF ties_handling = "minimize" THEN <<modified_rank, modified_rank>>
    ELSE IF ties_handling = "floor" THEN <<modified_rank, modified_rank + num(c) - num(1)>>
    ELSE IF ties_handling = "ceiling"
        THEN <<modified_rank + num(c) - num(1), modified_rank + num(c) - num(1)>>
    ELSE IF ties_handling = "middle"
        \* modified_rank-1 + (count+1.00)/2, in halves
        THEN <<modified_rank - num(1) + (c + 1), modified_rank + num(c) - num(1)>>
    ELSE <<modified_rank, modified_rank>>

\* the loop of normalize over sorted(set(ranking_list)); todo is the set of
\* raw values not yet visited, visited in ascending order
RECURSIVE normalize_loop(_, _, _, _, _)
normalize_loop(ranking_list, todo, new_rank, normalized_rank, ties_handling) ==
    IF todo = {} THEN normalized_rank
    ELSE LET original_rank == SetMin(todo)
             rank_indexes == indexes(ranking_list, original_rank)
             t == _handle_tie(ranking_list, original_rank, new_rank + num(1), ties_handling)
             assigned == [i \in DOMAIN normalized_rank |->
                            IF i \in rank_indexes THEN t[1] ELSE normalized_rank[i]]
         IN normalize_loop(ranking_list, todo \ {original_rank}, t[2], assigned, ties_handling)

\* normalize with a slip: the rank counter starts at 1 instead of 0, so the
\* smallest value gets rank 2
normalize_first_rank_slip(ranking_list, ties_handling) ==
    normalize_loop(ranking_list, {ranking_list[i] : i \in DOMAIN ranking_list}, num(1),
                   [i \in DOMAIN ranking_list |-> num(0)], ties_handling)

\* normalize(ranking_list, ties=...): the list built before the final assert
normalize(ranking_list, ties_handling) ==
    normalize_loop(ranking_list, {ranking_list[i] : i \in DOMAIN ranking_list}, num(0),
                   [i \in DOMAIN ranking_list |-> num(0)], ties_handling)

\* assert(normalized_rank.count(0)==0)
normalize_assert(ranking_list, ties_handling) ==
    count(normalize(ranking_list, ties_handling), num(0)) = 0

Return(v) == [raised |-> "none", value |-> v]
Raise(e) == [raised |-> e, value |-> <<>>]

\* the call normalize(ranking_list, ties=...) as a whole
normalize_call(ranking_list, ties_handling) ==
    IF normalize_assert(ranking_list, ties_handling)
    THEN Return(normalize(ranking_list, ties_handling))
    ELSE Raise("AssertionError")

\* invert(ranking_list, **kwargs): negates every item, then calls
\* normalize(inverted_ranking_list, kwargs) with the option bag as a second
\* POSITIONAL argument; normalize accepts one positional argument, so the
\* call raises TypeError for every input
invert(ranking_list, ties_handling) ==
    LET inverted_ranking_list == [i \in DOMAIN ranking_list |-> -1 * ranking_list[i]]
        positional_arguments == 2
        accepted_positional == 1
    IN IF positional_arguments > accepted_positional
       THEN Raise("TypeError")
       ELSE normalize_call(inverted_ranking_list, ties_handling)

\* int(round(float(i), 0)) of a value in halves: round half away from zero,
\* the result again stored in halves
int_round(h) ==
    IF h >= 0 THEN num((h + 1) \div 2) ELSE -num((-h + 1) \div 2)

\* class Ranking(list): the list and the tag 'normalization'
Ranking(ranking, integers, normalization) ==
    [list |-> [i \in DOMAIN ranking |-> IF integers THEN int_round(ranking[i]) ELSE ranking[i]],
     normalization |-> normalization]

\* Ranking.normalize(ties=...)
Ranking_normalize(self, ties_handling) ==
    Ranking(normalize(self.list, ties_handling), FALSE, ties_handling)

\* Objects and references.  A heap is the sequence of the list objects made
\* so far and a reference is the position of an object in it; a statement
\* that makes a list appends the object, a statement that writes to a list
\* replaces the object its target refers to.  An operator named *_heap gives
\* the heap a piece of code leaves and the reference it returns.

\* normalize with a slip: normalized_rank is bound to ranking_list itself
\* instead of a new list, so the loop writes the ranks into the argument
normalize_heap_in_place_slip(heap, ranking_list, ties_handling) ==
    [heap |-> [heap EXCEPT ![ranking_list].list = normalize(@, ties_handling)],
     ref |-> ranking_list]

\* normalize(ranking_list, ties=...): normalized_rank = [0]*length makes a
\* new list, every normalized_rank[rank_index] = new_rank writes to it, and
\* ranking_list is read (len, set, count, enumerate)
normalize_heap(heap, ranking_list, ties_handling) ==
    The({[heap |-> [made EXCEPT ![normalized_rank].list =
                       normalize(made[ranking_list].list, ties_handling)],
          ref |-> normalized_rank] :
           made \in {Append(heap, [list |-> [i \in DOMAIN heap[ranking_list].list |-> 0]])},
           normalized_rank \in {Len(heap) + 1}})

\* Ranking(ranking, integers=..., normalization=...): the new object self,
\* to which __init__ appends the converted items of ranking
Ranking_heap(heap, ranking, integers, normalization) ==
    The({[heap |-> [made EXCEPT ![self] =
                       Ranking(made[ranking].list, integers, normalization)],
          ref |-> self] :
           made \in {Append(heap, [list |-> <<>>, normalization |-> "unset"])},
           self \in {Len(heap) + 1}})

\* self.normalize(ties=...):
\* Ranking(normalize(self, ties=...), normalization=...)
Ranking_normalize_heap(heap, self, ties_handling) ==
    The({Ranking_heap(normalized.heap, normalized.ref, FALSE, ties_handling) :
           normalized \in {normalize_heap(heap, self, ties_handling)}})

\* self.integers(): Ranking(self, integers=True)
Ranking_integers_heap(heap, self) == Ranking_heap(heap, self, TRUE, "unknown")

\* the receiver after self.normalize(ties=...)
Ranking_normalize_self(self, ties_handling) ==
    The({after.heap[1] : after \in {Ranking_normalize_heap(<<self>>, 1, ties_handling)}})

\* Ranking.inverse(ties=...)
Ranking_inverse(self, ties_handling) ==
    LET inv == invert(self.list, ties_handling) IN
    IF inv.raised # "none" THEN inv
    ELSE Return(Ranking(inv.value, FALSE, ties_handling))

\* Ranking.integers()
Ranking_integers(self) == Ranking(self.list, TRUE, "unknown")

\* the receiver after self.integers()
Ranking_integers_self(self) ==
    The({after.heap[1] : after \in {Ranking_integers_heap(<<self>>, 1)}})

\* Ranking.indexes(neededrank)
Ranking_indexes(self, neededrank) == indexes(self.list, neededrank)

\* Ranking.__setitem__(key, value), key counted from 1: the tag is reset
\* before the list is written, also when the key is out of range
Ranking_setitem(self, key, value) ==
    [list |-> IF key \in DOMAIN self.list THEN [self.list EXCEPT ![key] = value]
              ELSE self.list,
     normalization |-> "unknown"]

\* Ranking.__delitem__(key), key counted from 1
Ranking_delitem(self, key) ==
    [list |-> IF key \in DOMAIN self.list
              THEN [i \in 1..(Len(self.list) - 1) |->
                       IF i < key THEN self.list[i] ELSE self.list[i + 1]]
              ELSE self.list,
     normalization |-> "unknown"]

\* the positions (counted from 1) the slice key[start:stop:step] selects in a
\* list of n items; start and stop are Python's bounds, counted from 0
slice_indices(key, n) ==
    {i \in 1..n : /\ i - 1 >= key.start
                  /\ i - 1 < key.stop
                  /\ (i - 1 - key.start) % key.step = 0}

\* Ranking.__setitem__(key, value) with an extended slice r[start:stop:step]
\* as key and a list as value: the tag is reset, then float(value) raises
\* TypeError and the list is not written
Ranking_setitem_slice(self, key, value) == [self EXCEPT !.normalization = "unknown"]

\* Ranking.__delitem__(key) with an extended slice r[start:stop:step] as key:
\* the tag is reset and the selected positions are deleted
Ranking_delitem_slice(self, key) ==
    LET kept == SelectSeq([i \in DOMAIN self.list |-> <<i, self.list[i]>>],
                          LAMBDA e : e[1] \notin slice_indices(key, Len(self.list)))
    IN [list |-> [k \in DOMAIN kept |-> kept[k][2]], normalization |-> "unknown"]

\* the methods Ranking inherits from list unchanged; none of them touches
\* the attribute normalization, and those that store values store them as
\* given (an int 2 where __setitem__ stores 2.0; the model holds the number)
list_append(self, value) == [self EXCEPT !.list = Append(@, value)]

list_extend(self, values) == [self EXCEPT !.list = @ \o values]

\* list.insert(index, value), index counted from 1 (an index beyond the end
\* appends)
list_insert(self, index, value) ==
    [self EXCEPT !.list =
        [i \in 1..(Len(@) + 1) |->
            IF i < index /\ i <= Len(@) THEN @[i]
            ELSE IF i = index \/ (index > Len(@) /\ i = Len(@) + 1) THEN value
            ELSE @[i - 1]]]

\* list.pop() of a non-empty list
list_pop(self) == [self EXCEPT !.list = [i \in 1..(Len(@) - 1) |-> @[i]]]

\* list.__setslice__(i, j, values), the statement r[i:j] = values (Python 2):
\* i and j are Python's bounds, counted from 0, within 0..len; the items
\* i..j-1 are replaced by values (none replaced when j <= i)
list_setslice(self, i, j, values) ==
    [self EXCEPT !.list =
        SubSeq(@, 1, i) \o values \o SubSeq(@, (IF j < i THEN i ELSE j) + 1, Len(@))]

\* list.__delslice__(i, j), the statement del r[i:j] (Python 2)
list_delslice(self, i, j) ==
    [self EXCEPT !.list = SubSeq(@, 1, i) \o SubSeq(@, (IF j < i THEN i ELSE j) + 1, Len(@))]

\* list.__iadd__(values), the statement r += values
list_iadd(self, values) == [self EXCEPT !.list = @ \o values]

\* list.__imul__(n), the statement r *= n: n copies, none when n <= 0
list_imul(self, n) ==
    [self EXCEPT !.list =
        [i \in 1..(IF n <= 0 THEN 0 ELSE n * Len(@)) |-> @[((i - 1) % Len(@)) + 1]]]

\* list.remove(value): deletes the first occurrence
list_remove(self, value) ==
    [self EXCEPT !.list =
        [i \in 1..(Len(@) - 1) |->
            IF i < SetMin(indexes(@, value)) THEN @[i] ELSE @[i + 1]]]

\* list.sort(): the value at position i is the one with fewer than i smaller
\* values and at least i values not larger
list_sort(self) ==
    [self EXCEPT !.list =
        [i \in 1..Len(@) |->
            CHOOSE x \in {@[j] : j \in DOMAIN @} :
                /\ Cardinality({j \in DOMAIN @ : @[j] < x}) < i
                /\ Cardinality({j \in DOMAIN @ : @[j] <= x}) >= i]]

\* list.reverse()
list_reverse(self) == [self EXCEPT !.list = [i \in 1..Len(@) |-> @[Len(@) + 1 - i]]]

(***************************************************************************)
(* evaluation/ranking/segment.py                                           *)
(***************************************************************************)
\* kendall_tau_prob(tau, pairs): erfc(|z| / 1.4142136) is not computed; the
\* probability is kept as the term it is computed from.  For the pair counts
\* of this model (below 600) the float is never 0.0, so the term is truthy.
kendall_tau_prob(tau, pairs) ==
    [kind |-> "prob", num |-> tau.num, den |-> tau.den, pairs |-> pairs]

\* Python truth value of a probability-or-None: the term stands for a float
\* in (0, 1], only None is false
TruthyProb(x) == x.kind # "None"

\* itertools.combinations(vector, 2): the pairs (v[i], v[j]), i < j, in
\* ascending order of (i, j)
RECURSIVE combinations_from(_, _)
combinations_from(vector, i) ==
    IF i >= Len(vector) THEN <<>>
    ELSE [j \in 1..(Len(vector) - i) |-> <<vector[i], vector[i + j]>>]
         \o combinations_from(vector, i + 1)

combinations(vector) == combinations_from(vector, 1)

\* zip(a, b): stops at the shorter sequence
zip(a, b) ==
    [i \in 1..(IF Len(a) < Len(b) THEN Len(a) ELSE Len(b)) |-> <<a[i], b[i]>>]

\* kendall_tau_pair with a slip: a predicted tie is never penalized, whatever
\* penalize_predicted_ties says
kendall_tau_pair_unpenalized(acc, original_pair, predicted_pair, exclude_ties, penalize_predicted_ties) ==
    LET original_i == original_pair[1]
        original_j == original_pair[2]
        predicted_i == predicted_pair[1]
        predicted_j == predicted_pair[2]
        stat == [acc EXCEPT
                   !.pairs = @ + 1,
                   !.original_ties = IF original_i = original_j THEN @ + 1 ELSE @,
                   !.predicted_ties = IF predicted_i = predicted_j THEN @ + 1 ELSE @]
    IN  IF original_i = num(-1) \/ original_j = num(-1) THEN stat
        ELSE IF original_i = original_j /\ exclude_ties THEN stat
        ELSE IF \/ (original_i > original_j /\ predicted_i > predicted_j)
                \/ (original_i < original_j /\ predicted_i < predicted_j)
                \/ (original_i = original_j /\ predicted_i = predicted_j)
            THEN [stat EXCEPT !.concordant_count = @ + 1]
        ELSE IF predicted_i = predicted_j THEN stat
        ELSE [stat EXCEPT !.discordant_count = @ + 1]

\* kendall_tau_pair with a slip: the second concordance test compares the
\* predicted ranks the wrong way round
kendall_tau_pair_sign_slip(acc, original_pair, predicted_pair, exclude_ties, penalize_predicted_ties) ==
    LET original_i == original_pair[1]
        original_j == original_pair[2]
        predicted_i == predicted_pair[1]
        predicted_j == predicted_pair[2]
        stat == [acc EXCEPT
                   !.pairs = @ + 1,
                   !.original_ties = IF original_i = original_j THEN @ + 1 ELSE @,
                   !.predicted_ties = IF predicted_i = predicted_j THEN @ + 1 ELSE @]
    IN  IF original_i = num(-1) \/ original_j = num(-1) THEN stat
        ELSE IF original_i = original_j /\ exclude_ties THEN stat
        ELSE IF \/ (original_i > original_j /\ predicted_i > predicted_j)
                \/ (original_i < original_j /\ predicted_i > predicted_j)
                \/ (original_i = original_j /\ predicted_i = predicted_j)
            THEN [stat EXCEPT !.concordant_count = @ + 1]
        ELSE IF predicted_i = predicted_j /\ ~penalize_predicted_ties THEN stat
        ELSE [stat EXCEPT !.discordant_count = @ + 1]

\* kendall_tau_pair with a slip: the concordance test lacks the case of both
\* pairs tied
kendall_tau_pair_both_tied_slip(acc, original_pair, predicted_pair, exclude_ties, penalize_predicted_ties) ==
    LET original_i == original_pair[1]
        original_j == original_pair[2]
        predicted_i == predicted_pair[1]
        predicted_j == predicted_pair[2]
        stat == [acc EXCEPT
                   !.pairs = @ + 1,
                   !.original_ties = IF original_i = original_j THEN @ + 1 ELSE @,
                   !.predicted_ties = IF predicted_i = predicted_j THEN @ + 1 ELSE @]
    IN  IF original_i = num(-1) \/ original_j = num(-1) THEN stat
        ELSE IF original_i = original_j /\ exclude_ties THEN stat
        ELSE IF \/ (original_i > original_j /\ predicted_i > predicted_j)
                \/ (original_i < original_j /\ predicted_i < predicted_j)
            THEN [stat EXCEPT !.concordant_count = @ + 1]
        ELSE IF predicted_i = predicted_j /\ ~penalize_predicted_ties THEN stat
        ELSE [stat EXCEPT !.discordant_count = @ + 1]

\* body of the loop over the pairs: the general statistics and the
\* if/elif chain that classifies one pair
kendall_tau_pair(acc, original_pair, predicted_pair, exclude_ties, penalize_predicted_ties) ==
    LET original_i == original_pair[1]
        original_j == original_pair[2]
        predicted_i == predicted_pair[1]
        predicted_j == predicted_pair[2]
        stat == [acc EXCEPT
                   !.pairs = @ + 1,
                   !.original_ties = IF original_i = original_j THEN @ + 1 ELSE @,
                   !.predicted_ties = IF predicted_i = predicted_j THEN @ + 1 ELSE @]
    IN  IF original_i = num(-1) \/ original_j = num(-1) THEN stat
        ELSE IF original_i = original_j /\ exclude_ties THEN stat
        ELSE IF \/ (original_i > original_j /\ predicted_i > predicted_j)
                \/ (original_i < original_j /\ predicted_i < predicted_j)
                \/ (original_i = original_j /\ predicted_i = predicted_j)
            THEN [stat EXCEPT !.concordant_count = @ + 1]
        ELSE IF predicted_i = predicted_j /\ ~penalize_predicted_ties THEN stat
        ELSE [stat EXCEPT !.discordant_count = @ + 1]

RECURSIVE kendall_tau_loop(_, _, _, _, _)
kendall_tau_loop(acc, zipped, k, exclude_ties, penalize_predicted_ties) ==
    IF k > Len(zipped) THEN acc
    ELSE kendall_tau_loop(
            kendall_tau_pair(acc, zipped[k][1], zipped[k][2], exclude_ties, penalize_predicted_ties),
            zipped, k + 1, exclude_ties, penalize_predicted_ties)

\* kendall_tau_result with a slip: tau is computed over all pairs instead of
\* the valid ones
kendall_tau_result_all_pairs(acc) ==
    LET all_pairs_count == acc.pairs
        tau == IF all_pairs_count = 0 THEN None
               ELSE Frac(acc.concordant_count - acc.discordant_count, all_pairs_count)
        prob == IF all_pairs_count = 0 THEN None
                ELSE kendall_tau_prob(tau, all_pairs_count)
    IN [tau |-> tau, prob |-> prob,
        concordant_count |-> acc.concordant_count,
        discordant_count |-> acc.discordant_count,
        all_pairs_count |-> all_pairs_count,
        original_ties |-> acc.original_ties,
        predicted_ties |-> acc.predicted_ties,
        pairs |-> acc.pairs]

\* the end of kendall_tau: all_pairs_count, tau and prob from the counts
\* (tau = None, prob = None on ZeroDivisionError) wrapped in the Result tuple
kendall_tau_result(acc) ==
    LET all_pairs_count == acc.concordant_count + acc.discordant_count
        tau == IF all_pairs_count = 0 THEN None
               ELSE Frac(acc.concordant_count - acc.discordant_count, all_pairs_count)
        prob == IF all_pairs_count = 0 THEN None
                ELSE kendall_tau_prob(tau, all_pairs_count)
    IN [tau |-> tau, prob |-> prob,
        concordant_count |-> acc.concordant_count,
        discordant_count |-> acc.discordant_count,
        all_pairs_count |-> all_pairs_count,
        original_ties |-> acc.original_ties,
        predicted_ties |-> acc.predicted_ties,
        pairs |-> acc.pairs]

\* kendall_tau(predicted_rank_vector, original_rank_vector, **kwargs)
kendall_tau(predicted, original, kw) ==
    LET p == Ranking_normalize(predicted, kw.ties)
        o == Ranking_normalize(original, kw.ties)
        inv == IF kw.invert_ranks THEN -1 ELSE 1
        predicted_pairs == combinations(p.list)
        original_pairs == [x \in DOMAIN combinations(o.list) |->
                             <<inv * combinations(o.list)[x][1], inv * combinations(o.list)[x][2]>>]
    IN kendall_tau_result(
          kendall_tau_loop(
             [concordant_count |-> 0, discordant_count |-> 0,
              original_ties |-> 0, predicted_ties |-> 0, pairs |-> 0],
             zip(original_pairs, predicted_pairs), 1,
             kw.exclude_ties, kw.penalize_predicted_ties))

\* the heap after kendall_tau: both arguments are the receivers of
\* normalize(ties=...), whose results are bound to the local names; the
\* pairs are new tuples of floats and the loop only counts
kendall_tau_heap(heap, predicted, original, kw) ==
    The({Ranking_normalize_heap(after_predicted.heap, original, kw.ties).heap :
           after_predicted \in {Ranking_normalize_heap(heap, predicted, kw.ties)}})

\* the two arguments after kendall_tau
kendall_tau_inputs(predicted, original, kw) ==
    The({<<heap[1], heap[2]>> :
           heap \in {kendall_tau_heap(<<predicted, original>>, 1, 2, kw)}})

RECURSIVE Pow2(_)
Pow2(e) == IF e <= 0 THEN 1 ELSE 2 * Pow2(e - 1)

\* _calculate_gains_loop with a slip: the relevance of gold rank i is taken
\* as n-i instead of n-i+1
RECURSIVE _calculate_gains_loop_relevance_slip(_, _, _, _)
_calculate_gains_loop_relevance_slip(gains, r, l, j) ==
    IF j > Len(l) THEN gains
    ELSE _calculate_gains_loop_relevance_slip(
            [gains EXCEPT ![units(r[j])] = Frac(Pow2(Len(l) - units(l[j])) - 1, Pow2(Len(l)))],
            r, l, j + 1)

\* _calculate_gains(r, l): the list gains after the loop; j runs over
\* range(n) and later writes to a position overwrite earlier ones
RECURSIVE _calculate_gains_loop(_, _, _, _)
_calculate_gains_loop(gains, r, l, j) ==
    IF j > Len(l) THEN gains
    ELSE _calculate_gains_loop(
            [gains EXCEPT ![units(r[j])] = Frac(Pow2(Len(l) - units(l[j]) + 1) - 1, Pow2(Len(l)))],
            r, l, j + 1)

_calculate_gains(r, l) ==
    _calculate_gains_loop([i \in 1..Len(l) |-> Frac(0, 1)], r, l, 1)

\* assert min(gains)>=0, 'Not all ranks present'; min() of an empty list
\* raises ValueError
_calculate_gains_raised(gains) ==
    IF gains = <<>> THEN "ValueError"
    ELSE IF \E i \in DOMAIN gains : gains[i].num < 0 THEN "AssertionError"
    ELSE "none"

\* gains.sort(); gains = gains[::-1]: insertion into a descending list
RECURSIVE sorted_desc(_)
sorted_desc(gains) ==
    IF gains = <<>> THEN <<>>
    ELSE LET rest == sorted_desc(Tail(gains))
             larger == {i \in DOMAIN rest : ~FLess(rest[i], Head(gains))}
         IN [i \in 1..(Len(rest) + 1) |->
               IF i <= Cardinality(larger) THEN rest[i]
               ELSE IF i = Cardinality(larger) + 1 THEN Head(gains)
               ELSE rest[i - 1]]

\* gains[:k] for 0 <= k
prefix(gains, k) == [i \in 1..(IF k < Len(gains) THEN k ELSE Len(gains)) |-> gains[i]]

\* sum([g/log(j+2) for (j,g) in enumerate(gains[:k])]): logarithms are not
\* computed; the sum is kept as its list of coefficients, entry j standing
\* for the term entry/ln(j+1) (1-based j)
dcg_sum(gains, k) == prefix(gains, k)

\* idcg(gains, k)
idcg(gains, k) == dcg_sum(sorted_desc(gains), k)

\* the list the caller passed to idcg, after the call: gains.sort() sorts it
\* in place, ascending; gains = gains[::-1] binds the local name to a copy
idcg_gains(gains, k) ==
    [i \in 1..Len(gains) |-> sorted_desc(gains)[Len(gains) + 1 - i]]

\* the ERR loop: err += p*r/(j+1.0); p *= 1-r
RECURSIVE err_loop(_, _, _, _)
err_loop(gains, j, p, err) ==
    IF j > Len(gains) THEN err
    ELSE err_loop(gains, j + 1,
                  FMul(p, FSub(Frac(1, 1), gains[j])),
                  FAdd(err, FDivInt(FMul(p, gains[j]), j)))

\* ndgc_err with a slip: idcg is called ahead of the ERR loop and of the DCG
\* sum, which then read the list idcg has sorted
ndgc_err_sorted_first_slip(predicted, original, k) ==
    LET r == Ranking_integers(Ranking_normalize(predicted, "ceiling")).list
        l == Ranking_integers(Ranking_normalize(original, "ceiling")).list
        n == Len(l)
        kk == IF k = 0 THEN n ELSE k
        gains == _calculate_gains(r, l)
        ideal_dcg == idcg(gains, kk)
        err == err_loop(idcg_gains(gains, kk), 1, Frac(1, 1), Frac(0, 1))
        dcg == dcg_sum(idcg_gains(gains, kk), kk)
        ndcg == IF \E i \in DOMAIN ideal_dcg : ideal_dcg[i].num # 0
                THEN [kind |-> "ratio", dcg |-> dcg, ideal_dcg |-> ideal_dcg]
                ELSE [kind |-> "one", dcg |-> <<>>, ideal_dcg |-> <<>>]
    IN  IF Len(r) # n THEN Raise("AssertionError")
        ELSE IF _calculate_gains_raised(gains) # "none"
            THEN Raise(_calculate_gains_raised(gains))
        ELSE Return([ndcg |-> ndcg, err |-> err])

\* ndgc_err(predicted_rank_vector, original_rank_vector, k); k = 0 stands
\* for k=None as well ('if not k' treats both alike).  The ERR loop and the
\* DCG sum read gains before idcg(gains, k) sorts the list in place; nothing
\* reads the list after that call
ndgc_err(predicted, original, k) ==
    LET r == Ranking_integers(Ranking_normalize(predicted, "ceiling")).list
        l == Ranking_integers(Ranking_normalize(original, "ceiling")).list
        n == Len(l)
        kk == IF k = 0 THEN n ELSE k
        gains == _calculate_gains(r, l)
        err == err_loop(gains, 1, Frac(1, 1), Frac(0, 1))
        dcg == dcg_sum(gains, kk)
        ideal_dcg == idcg(gains, kk)
        ndcg == IF \E i \in DOMAIN ideal_dcg : ideal_dcg[i].num # 0
                THEN [kind |-> "ratio", dcg |-> dcg, ideal_dcg |-> ideal_dcg]
                ELSE [kind |-> "one", dcg |-> <<>>, ideal_dcg |-> <<>>]
    IN  IF Len(r) # n THEN Raise("AssertionError")
        ELSE IF _calculate_gains_raised(gains) # "none"
            THEN Raise(_calculate_gains_raised(gains))
        ELSE Return([ndcg |-> ndcg, err |-> err])

\* rank_vector.normalize(ties='ceiling').integers()
normalize_integers_heap(heap, rank_vector) ==
    The({Ranking_integers_heap(normalized.heap, normalized.ref) :
           normalized \in {Ranking_normalize_heap(heap, rank_vector, "ceiling")}})

\* the heap when ndgc_err has called _calculate_gains, the list gains that
\* call has made and written to (0 when the assert on the lengths has
\* failed before it), and the exception raised so far
gains_heap(heap, r, l) ==
    IF Len(heap[r].list) # Len(heap[l].list)
    THEN [heap |-> heap, ref |-> 0, raised |-> "AssertionError"]
    ELSE The({[heap |-> made, ref |-> Len(heap) + 1,
               raised |-> _calculate_gains_raised(made[Len(heap) + 1].list)] :
                made \in {Append(heap, [list |-> _calculate_gains(heap[r].list,
                                                                  heap[l].list)])}})

\* ndgc_err up to the call of _calculate_gains; the cut-off is not read
\* there but to set k = n when it is absent
ndgc_err_gains_heap(heap, predicted, original) ==
    The({The({gains_heap(l.heap, r.ref, l.ref) :
                l \in {normalize_integers_heap(r.heap, original)}}) :
           r \in {normalize_integers_heap(heap, predicted)}})

\* the rest of ndgc_err, reached when nothing was raised: the ERR loop and
\* the DCG sum read gains, and idcg(gains, k) sorts the list in place
ndgc_err_idcg_heap(made, k) ==
    [heap |-> IF made.raised # "none" THEN made.heap
              ELSE [made.heap EXCEPT ![made.ref].list =
                       idcg_gains(@, IF k = 0 THEN Len(@) ELSE k)],
     raised |-> made.raised]

\* the heap after ndgc_err, and the exception the call ends with
ndgc_err_heap(heap, predicted, original, k) ==
    The({ndgc_err_idcg_heap(made, k) :
           made \in {ndgc_err_gains_heap(heap, predicted, original)}})

\* the two arguments after ndgc_err
ndgc_err_inputs(predicted, original, k) ==
    The({<<after.heap[1], after.heap[2]>> :
           after \in {ndgc_err_heap(<<predicted, original>>, 1, 2, k)}})

\* min(list) of a non-empty list of ranks
SeqMin(s) == SetMin({s[i] : i \in DOMAIN s})

\* max(list) of a non-empty list of ranks
SeqMax(s) == CHOOSE x \in {s[i] : i \in DOMAIN s} : \A i \in DOMAIN s : s[i] <= x

\* reciprocal_rank with a slip: the worst instead of the best predicted rank
\* of the items holding the best gold rank
reciprocal_rank_worst_slip(predicted, original, kw) ==
    LET ties_handling == IF kw.ties = "absent" THEN "ceiling" ELSE kw.ties
        predicted_normalized == Ranking_normalize(predicted, ties_handling)
        original_normalized == Ranking_normalize(original, ties_handling)
        best_original_rank_indexes ==
            Ranking_indexes(original_normalized, SeqMin(original_normalized.list))
        values == {predicted_normalized.list[index] : index \in best_original_rank_indexes}
    IN  IF original_normalized.list = <<>> THEN Raise("ValueError")
        ELSE IF \E index \in best_original_rank_indexes :
                    index > Len(predicted_normalized.list)
            THEN Raise("IndexError")
        ELSE Return(Frac(2, CHOOSE x \in values : \A y \in values : y <= x))

\* reciprocal_rank(predicted_rank_vector, original_rank_vector, ties=...):
\* min() of an empty gold vector raises ValueError, an index of a best gold
\* rank beyond the end of the predicted vector raises IndexError
reciprocal_rank(predicted, original, kw) ==
    LET \* kwargs.setdefault('ties', 'ceiling')
        ties_handling == IF kw.ties = "absent" THEN "ceiling" ELSE kw.ties
        predicted_normalized == Ranking_normalize(predicted, ties_handling)
        original_normalized == Ranking_normalize(original, ties_handling)
        best_original_rank == SeqMin(original_normalized.list)
        best_original_rank_indexes ==
            Ranking_indexes(original_normalized, best_original_rank)
        predicted_values_for_best_rank ==
            {predicted_normalized.list[index] : index \in best_original_rank_indexes}
        best_predicted_value_for_best_rank == SetMin(predicted_values_for_best_rank)
    IN  IF original_normalized.list = <<>> THEN Raise("ValueError")
        ELSE IF \E index \in best_original_rank_indexes :
                    index > Len(predicted_normalized.list)
            THEN Raise("IndexError")
        \* 1.00 / rank, the rank being best_predicted_value_for_best_rank / 2
        ELSE Return(Frac(2, best_predicted_value_for_best_rank))

\* the heap after reciprocal_rank: both arguments are the receivers of
\* normalize(ties=...), whose results are bound to the local names; min,
\* indexes and the list comprehension read the new vectors
reciprocal_rank_heap(heap, predicted, original, kw) ==
    The({The({Ranking_normalize_heap(after_predicted.heap, original,
                                     ties_handling).heap :
                after_predicted \in {Ranking_normalize_heap(heap, predicted,
                                                      ties_handling)}}) :
           ties_handling \in {IF kw.ties = "absent" THEN "ceiling" ELSE kw.ties}})

\* the two arguments after reciprocal_rank
reciprocal_rank_inputs(predicted, original, kw) ==
    The({<<heap[1], heap[2]>> :
           heap \in {reciprocal_rank_heap(<<predicted, original>>, 1, 2, kw)}})

(***************************************************************************)
(* evaluation/ranking/set.py                                               *)
(***************************************************************************)
\* numpy.average(list): nan for the empty list
RECURSIVE FSum(_)
FSum(s) == IF s = <<>> THEN Frac(0, 1) ELSE FAdd(s[1], FSum(Tail(s)))

average(s) == IF s = <<>> THEN nan ELSE FDivInt(FSum(s), Len(s))

\* body of the loop of kendall_tau_set over zip(predicted, original): the
\* accumulation of the Result seg of segment.kendall_tau(predicted, original)
kendall_tau_set_segment(acc, predicted, seg) ==
    [segtaus |-> IF Truthy(seg.tau) /\ TruthyProb(seg.prob)
                 THEN Append(acc.segtaus, seg.tau) ELSE acc.segtaus,
     segprobs |-> IF Truthy(seg.tau) /\ TruthyProb(seg.prob)
                  THEN Append(acc.segprobs, seg.prob) ELSE acc.segprobs,
     concordant |-> acc.concordant + seg.concordant_count,
     discordant |-> acc.discordant + seg.discordant_count,
     valid_pairs |-> acc.valid_pairs + seg.all_pairs_count,
     original_ties_overall |-> acc.original_ties_overall + seg.original_ties,
     predicted_ties_overall |-> acc.predicted_ties_overall + seg.predicted_ties,
     sentences_with_ties |-> IF seg.predicted_ties > 0
                             THEN acc.sentences_with_ties + 1 ELSE acc.sentences_with_ties,
     pairs_overall |-> acc.pairs_overall + seg.pairs,
     \* loop variables, which keep the values of the last iteration
     predicted_ties |-> seg.predicted_ties,
     predicted_rank_vector |-> predicted]

\* the loop of kendall_tau_set from segment i on
RECURSIVE kendall_tau_set_loop(_, _, _, _, _)
kendall_tau_set_loop(acc, predicted, original, i, kw) ==
    IF i > Len(predicted) \/ i > Len(original) THEN acc
    ELSE The({kendall_tau_set_loop(next, predicted, original, i + 1, kw) :
                next \in {kendall_tau_set_segment(acc, predicted[i], seg) :
                            seg \in {kendall_tau(predicted[i], original[i], kw)}}})

\* the statements of kendall_tau_set after the loop: tau, prob, the averages
\* and the stats dictionary
kendall_tau_set_stats(acc) ==
    IF acc.concordant + acc.discordant = 0 THEN Raise("ZeroDivisionError")
    ELSE IF acc.pairs_overall = 0 THEN Raise("ZeroDivisionError")
    ELSE IF Len(acc.predicted_rank_vector.list) = 0 THEN Raise("ZeroDivisionError")
    ELSE Return(
      [tau |-> Frac(acc.concordant - acc.discordant, acc.concordant + acc.discordant),
       tau_prob |-> kendall_tau_prob(
                       Frac(acc.concordant - acc.discordant, acc.concordant + acc.discordant),
                       acc.valid_pairs),
       tau_avg_seg |-> average(acc.segtaus),
       \* numpy.product(segprobs), kept as the list of its factors
       tau_avg_seg_prob |-> acc.segprobs,
       tau_concordant |-> acc.concordant,
       tau_discordant |-> acc.discordant,
       tau_valid_pairs |-> acc.valid_pairs,
       tau_all_pairs |-> acc.pairs_overall,
       tau_original_ties |-> acc.original_ties_overall,
       tau_predicted_ties |-> acc.predicted_ties_overall,
       tau_predicted_ties_per |-> Frac(100 * acc.predicted_ties, acc.pairs_overall),
       tau_sentence_ties |-> acc.sentences_with_ties,
       tau_sentence_ties_per |->
           Frac(100 * acc.sentences_with_ties, Len(acc.predicted_rank_vector.list))])

\* kendall_tau_set(predicted_rank_vectors, original_rank_vectors, **kwargs)
kendall_tau_set(predicted, original, kw) ==
    The({kendall_tau_set_stats(acc) :
           acc \in {kendall_tau_set_loop(
                      [segtaus |-> <<>>, segprobs |-> <<>>,
                       concordant |-> 0, discordant |-> 0, valid_pairs |-> 0,
                       original_ties_overall |-> 0, predicted_ties_overall |-> 0,
                       sentences_with_ties |-> 0, pairs_overall |-> 0,
                       predicted_ties |-> 0,
                       predicted_rank_vector |-> Ranking(<<>>, FALSE, "unknown")],
                      predicted, original, 1, kw)}})

\* the loop of mrr from segment i on: the list reciprocal_ranks, or the
\* exception of the first segment that raises one
RECURSIVE mrr_loop(_, _, _, _)
mrr_loop(reciprocal_ranks, predicted, original, i) ==
    IF i > Len(predicted) \/ i > Len(original) THEN Return(reciprocal_ranks)
    ELSE The({IF rr.raised # "none" THEN rr
              ELSE mrr_loop(Append(reciprocal_ranks, rr.value), predicted, original, i + 1) :
                rr \in {reciprocal_rank(predicted[i], original[i],
                                        [ties |-> "absent"])}})

\* mrr(predicted_rank_vectors, original_rank_vectors, **kwargs); the kwargs
\* are not passed on to reciprocal_rank
mrr(predicted, original) ==
    The({IF l.raised # "none" THEN l ELSE Return([mrr |-> average(l.value)]) :
           l \in {mrr_loop(<<>>, predicted, original, 1)}})

\* the gold ranks of the items that hold the best predicted rank, over
\* zip(original_rank_vector, predicted_rank_vector)
original_ranks_of_best(predicted_list, original_list) ==
    LET zipped == zip(original_list, predicted_list)
        best_predicted_rank == SeqMin(predicted_list)
    IN  {zipped[i][1] : i \in {x \in DOMAIN zipped : zipped[x][2] = best_predicted_rank}}

\* best_predicted_vs_human_segment with a slip: the best instead of the
\* worst gold rank of the items that hold the best predicted rank
best_predicted_vs_human_segment_best_slip(predicted, original) ==
    LET predicted_normalized == Ranking_normalize(predicted, "minimize")
        original_normalized == Ranking_normalize(original, "minimize")
        original_ranks ==
            original_ranks_of_best(predicted_normalized.list, original_normalized.list)
    IN  IF predicted_normalized.list = <<>> THEN [raised |-> "skip", value |-> <<>>]
        ELSE IF original_ranks = {} THEN Raise("ValueError")
        ELSE Return(SetMin(original_ranks))

\* body of the loop of best_predicted_vs_human for one segment: "skip" for an
\* empty predicted vector, else the selected_original_rank (max() of an
\* empty list raises ValueError)
best_predicted_vs_human_segment(predicted, original) ==
    LET predicted_normalized == Ranking_normalize(predicted, "minimize")
        original_normalized == Ranking_normalize(original, "minimize")
        original_ranks ==
            original_ranks_of_best(predicted_normalized.list, original_normalized.list)
    IN  IF predicted_normalized.list = <<>> THEN [raised |-> "skip", value |-> <<>>]
        ELSE IF original_ranks = {} THEN Raise("ValueError")
        ELSE Return(CHOOSE x \in original_ranks : \A y \in original_ranks : y <= x)

\* actual_values_of_best_predicted[rank] = setdefault(rank, 0) + 1
tally(actual_values, rank) ==
    [x \in (DOMAIN actual_values) \cup {rank} |->
        IF x = rank
        THEN (IF rank \in DOMAIN actual_values THEN actual_values[rank] ELSE 0) + 1
        ELSE actual_values[x]]

\* the first loop of best_predicted_vs_human from segment i on
RECURSIVE best_predicted_vs_human_loop(_, _, _, _)
best_predicted_vs_human_loop(actual_values, predicted, original, i) ==
    IF i > Len(predicted) \/ i > Len(original) THEN Return(actual_values)
    ELSE The({IF seg.raised = "skip"
              THEN best_predicted_vs_human_loop(actual_values, predicted, original, i + 1)
              ELSE IF seg.raised # "none" THEN seg
              ELSE The({best_predicted_vs_human_loop(next, predicted, original, i + 1) :
                          next \in {tally(actual_values, seg.value)}}) :
                seg \in {best_predicted_vs_human_segment(predicted[i], original[i])}})

\* round(100.00 * counts / n, 2), in hundredths; the quotient is never
\* half-way between two hundredths for n < 32
round2(counts, n) == Frac((2 * 100 * 100 * counts + n) \div (2 * n), 100)

\* best_predicted_vs_human(predicted_rank_vectors, original_rank_vectors):
\* the dictionary percentages, the key "bph_" + str(rank) standing as rank
best_predicted_vs_human(predicted, original) ==
    The({IF counts.raised # "none" THEN counts
         ELSE Return([rank \in DOMAIN counts.value |->
                         round2(counts.value[rank], Len(predicted))]) :
           counts \in {best_predicted_vs_human_loop(<<>>, predicted, original, 1)}})

\* body of the loop of avg_predicted_ranked for one segment: the worst gold
\* rank of the items that hold the best predicted rank, both under 'ceiling'
avg_predicted_ranked_segment(predicted, original) ==
    LET predicted_normalized == Ranking_normalize(predicted, "ceiling")
        original_normalized == Ranking_normalize(original, "ceiling")
        mapped_original_ranks ==
            original_ranks_of_best(predicted_normalized.list, original_normalized.list)
    IN  IF predicted_normalized.list = <<>> THEN Raise("ValueError")
        ELSE IF mapped_original_ranks = {} THEN Raise("ValueError")
        ELSE Return(CHOOSE x \in mapped_original_ranks :
                       \A y \in mapped_original_ranks : y <= x)

RECURSIVE avg_predicted_ranked_loop(_, _, _, _)
avg_predicted_ranked_loop(original_ranks, predicted, original, i) ==
    IF i > Len(predicted) \/ i > Len(original) THEN Return(original_ranks)
    ELSE The({IF seg.raised # "none" THEN seg
              \* the rank seg.value is kept in halves: the float seg.value / 2
              ELSE avg_predicted_ranked_loop(Append(original_ranks, Frac(seg.value, 2)),
                                             predicted, original, i + 1) :
                seg \in {avg_predicted_ranked_segment(predicted[i], original[i])}})

\* avg_predicted_ranked(predicted_rank_vectors, original_rank_vectors, **kwargs)
avg_predicted_ranked(predicted, original) ==
    The({IF l.raised # "none" THEN l
         ELSE Return([avg_predicted_ranked |-> average(l.value)]) :
           l \in {avg_predicted_ranked_loop(<<>>, predicted, original, 1)}})

\* the loop of avg_ndgc_err from segment i on; k is kwargs['k'] (0 while the
\* key is absent): kwargs.setdefault('k', len(predicted_rank_vector)) stores
\* the length of the first segment in kwargs, where the later iterations find
\* it
RECURSIVE avg_ndgc_err_loop(_, _, _, _, _)
avg_ndgc_err_loop(lists, predicted, original, i, k) ==
    IF i > Len(predicted) \/ i > Len(original) THEN Return(lists)
    ELSE The({IF seg.raised # "none" THEN seg
              ELSE avg_ndgc_err_loop(
                     [ndgc_list |-> Append(lists.ndgc_list, seg.value.ndcg),
                      err_list |-> Append(lists.err_list, seg.value.err)],
                     predicted, original, i + 1,
                     IF k = 0 THEN Len(predicted[i].list) ELSE k) :
                seg \in {ndgc_err(predicted[i], original[i],
                                  IF k = 0 THEN Len(predicted[i].list) ELSE k)}})

\* avg_ndgc_err(predicted_rank_vectors, original_rank_vectors, **kwargs);
\* the average of the NDCG values is kept as the list it is taken of
avg_ndgc_err(predicted, original, kw) ==
    The({IF l.raised # "none" THEN l
         ELSE Return([ndgc |-> [kind |-> IF l.value.ndgc_list = <<>> THEN "nan" ELSE "average",
                                of |-> l.value.ndgc_list],
                      err |-> average(l.value.err_list)]) :
           l \in {avg_ndgc_err_loop([ndgc_list |-> <<>>, err_list |-> <<>>],
                                    predicted, original, 1, kw.k)}})

\* the segments the loop over zip(predicted, original) reaches: all pairs,
\* or the pairs up to the first one of raising, whose exception ends the loop
reached(predicted, original, raising) ==
    LET pairs == 1..(IF Len(predicted) < Len(original) THEN Len(predicted) ELSE Len(original))
    IN  IF raising \cap pairs = {} THEN pairs ELSE 1..SetMin(raising \cap pairs)

\* the two argument lists with the segments of zipped replaced by what the
\* loop body leaves of them, after[i] being the pair left of segment i; the
\* body is given the two objects of its segment and writes to no object of
\* another one
segments_inputs(predicted, original, zipped, after) ==
    The({<<[i \in DOMAIN predicted |-> IF i \in zipped THEN left[i][1] ELSE predicted[i]],
           [i \in DOMAIN original |-> IF i \in zipped THEN left[i][2] ELSE original[i]]>> :
           left \in {SubSeq(after, 1, Cardinality(zipped))}})

\* the two argument lists after kendall_tau_set: the loop passes every pair
\* of segments to segment.kendall_tau, which does not raise
kendall_tau_set_inputs(predicted, original, kw) ==
    The({segments_inputs(predicted, original, zipped,
                         [i \in zipped |-> kendall_tau_inputs(predicted[i], original[i], kw)]) :
           zipped \in {reached(predicted, original, {})}})

\* the two argument lists after mrr: the loop passes the pairs of segments
\* to segment.reciprocal_rank until one raises
mrr_inputs(predicted, original) ==
    The({segments_inputs(predicted, original, zipped,
                         [i \in zipped |->
                             reciprocal_rank_inputs(predicted[i], original[i],
                                                    [ties |-> "absent"])]) :
           zipped \in {reached(predicted, original,
                               {i \in DOMAIN predicted \cap DOMAIN original :
                                   reciprocal_rank(predicted[i], original[i],
                                                   [ties |-> "absent"]).raised # "none"})}})

\* the heap after the body of the loop of best_predicted_vs_human: both
\* vectors of the segment are the receivers of normalize(), whose results
\* are bound to the loop's names, before the segment is skipped, tallied or
\* max() raises
best_predicted_vs_human_segment_heap(heap, predicted, original) ==
    The({Ranking_normalize_heap(after_predicted.heap, original, "minimize").heap :
           after_predicted \in {Ranking_normalize_heap(heap, predicted, "minimize")}})

\* the two argument lists after best_predicted_vs_human
best_predicted_vs_human_inputs(predicted, original) ==
    The({segments_inputs(predicted, original, zipped,
                         [i \in zipped |->
                             The({<<heap[1], heap[2]>> :
                                    heap \in {best_predicted_vs_human_segment_heap(
                                                 <<predicted[i], original[i]>>, 1, 2)}})]) :
           zipped \in {reached(predicted, original,
                               {i \in DOMAIN predicted \cap DOMAIN original :
                                   best_predicted_vs_human_segment(
                                       predicted[i], original[i]).raised
                                     \notin {"none", "skip"}})}})

\* the heap after the body of the loop of avg_predicted_ranked: both vectors
\* of the segment are the receivers of normalize(ties='ceiling'), whose
\* results are bound to the loop's names, before min() or max() raises
avg_predicted_ranked_segment_heap(heap, predicted, original) ==
    The({Ranking_normalize_heap(after_predicted.heap, original, "ceiling").heap :
           after_predicted \in {Ranking_normalize_heap(heap, predicted, "ceiling")}})

\* the two argument lists after avg_predicted_ranked
avg_predicted_ranked_inputs(predicted, original) ==
    The({segments_inputs(predicted, original, zipped,
                         [i \in zipped |->
                             The({<<heap[1], heap[2]>> :
                                    heap \in {avg_predicted_ranked_segment_heap(
                                                 <<predicted[i], original[i]>>, 1, 2)}})]) :
           zipped \in {reached(predicted, original,
                               {i \in DOMAIN predicted \cap DOMAIN original :
                                   avg_predicted_ranked_segment(
                                       predicted[i], original[i]).raised # "none"})}})

\* segment.ndgc_err on every pair of segments, each on a heap of its own
\* two objects
ndgc_err_runs(predicted, original, k) ==
    The({SubSeq([i \in pairs |-> ndgc_err_heap(<<predicted[i], original[i]>>, 1, 2, k)],
                1, Cardinality(pairs)) :
           pairs \in {reached(predicted, original, {})}})

\* the two argument lists after avg_ndgc_err: the loop passes the pairs of
\* segments to segment.ndgc_err until one raises
avg_ndgc_err_inputs(predicted, original, kw) ==
    The({The({segments_inputs(predicted, original, zipped,
                              [i \in zipped |-> <<runs[i].heap[1], runs[i].heap[2]>>]) :
                zipped \in {reached(predicted, original,
                                    {i \in DOMAIN runs : runs[i].raised # "none"})}}) :
           runs \in {ndgc_err_runs(predicted, original, kw.k)}})

\* a dictionary with string keys as a function of the keys <<name, 0>>
dict(record) == [key \in {<<name, 0>> : name \in DOMAIN record} |-> record[key[1]]]

\* the dictionary best_predicted_vs_human returns, the key "bph_" + str(rank)
\* as <<"bph_", rank>>
bph_dict(percentages) ==
    [key \in {<<"bph_", rank>> : rank \in DOMAIN percentages} |-> percentages[key[2]]]

\* stats.update(other): the entries of other replace those of stats
dict_update(stats, other) ==
    [key \in (DOMAIN stats) \cup (DOMAIN other) |->
        IF key \in DOMAIN other THEN other[key] ELSE stats[key]]

\* the list functions of allmetrics
functions ==
    <<"kendall_tau_set", "mrr", "best_predicted_vs_human", "avg_predicted_ranked",
      "avg_ndgc_err">>

\* function(predicted_rank_vectors, original_rank_vectors, **kwargs): the
\* dictionary returned or the exception raised; kw.given holds the keys of
\* kwargs.  best_predicted_vs_human declares no **kwargs, so a call with a
\* keyword raises TypeError before its body runs
call(function, predicted, original, kw) ==
    IF function = "kendall_tau_set"
    THEN The({IF out.raised # "none" THEN out ELSE Return(dict(out.value)) :
                out \in {kendall_tau_set(predicted, original, kw)}})
    ELSE IF function = "mrr"
    THEN The({IF out.raised # "none" THEN out ELSE Return(dict(out.value)) :
                out \in {mrr(predicted, original)}})
    ELSE IF function = "best_predicted_vs_human"
    THEN IF kw.given # {} THEN Raise("TypeError")
         ELSE The({IF out.raised # "none" THEN out ELSE Return(bph_dict(out.value)) :
                     out \in {best_predicted_vs_human(predicted, original)}})
    ELSE IF function = "avg_predicted_ranked"
    THEN The({IF out.raised # "none" THEN out ELSE Return(dict(out.value)) :
                out \in {avg_predicted_ranked(predicted, original)}})
    ELSE The({IF out.raised # "none" THEN out ELSE Return(dict(out.value)) :
                out \in {avg_ndgc_err(predicted, original, kw)}})

\* the two argument lists after that call
call_inputs(function, predicted, original, kw) ==
    IF function = "kendall_tau_set" THEN kendall_tau_set_inputs(predicted, original, kw)
    ELSE IF function = "mrr" THEN mrr_inputs(predicted, original)
    ELSE IF function = "best_predicted_vs_human"
    THEN IF kw.given # {} THEN <<predicted, original>>
         ELSE best_predicted_vs_human_inputs(predicted, original)
    ELSE IF function = "avg_predicted_ranked"
    THEN avg_predicted_ranked_inputs(predicted, original)
    ELSE avg_ndgc_err_inputs(predicted, original, kw)

\* the loop of allmetrics from function i on; run holds stats (or the
\* exception that ended the loop) and the two argument lists as the calls
\* made so far have left them
RECURSIVE allmetrics_loop(_, _, _)
allmetrics_loop(run, i, kw) ==
    IF i > Len(functions) THEN run
    ELSE The({IF out.raised # "none"
              THEN [outcome |-> out, predicted |-> after[1], original |-> after[2]]
              ELSE allmetrics_loop(
                     [outcome |-> Return(dict_update(run.outcome.value, out.value)),
                      predicted |-> after[1], original |-> after[2]],
                     i + 1, kw) :
                out \in {call(functions[i], run.predicted, run.original, kw)},
                after \in {call_inputs(functions[i], run.predicted, run.original, kw)}})

\* allmetrics(predicted_rank_vectors, original_rank_vectors, **kwargs): the
\* outcome and the argument lists after the call
allmetrics_run(predicted, original, kw) ==
    allmetrics_loop([outcome |-> Return(<<>>), predicted |-> predicted,
                     original |-> original], 1, kw)

allmetrics(predicted, original, kw) == allmetrics_run(predicted, original, kw).outcome

(***************************************************************************)
(* Inputs                                                                  *)
(***************************************************************************)
\* all sequences over S of length lo..hi
SeqsOf(S, lo, hi) == UNION {[1..n -> S] : n \in lo..hi}

\* a Ranking as the caller builds it from raw attribute values
RawRankings(values, lo, hi) ==
    {Ranking(v, FALSE, "unknown") : v \in SeqsOf(values, lo, hi)}

RawRanks == {num(r) : r \in 1..MaxRank}

\* the strict rankings of n items: every rank 1..n given once
StrictRankings(n) ==
    {Ranking([i \in 1..n |-> num(v[i])], FALSE, "unknown") :
        v \in {w \in [1..n -> 1..n] : \A i, j \in 1..n : i # j => w[i] # w[j]}}

\* the vectors of up to MaxLen raw ranks and the strict rankings of MaxLen
\* items; the gold side may hold the sentinel -1
PredictedRankings == RawRankings(RawRanks, 0, MaxLen) \cup StrictRankings(MaxLen)
OriginalRankings ==
    RawRankings(RawRanks \cup {num(-1)}, 0, MaxLen) \cup StrictRankings(MaxLen)

\* the rank vectors the segments of a set-level call are built from: none
\* to three items, tie-free and tied
SetVectors ==
    {<<>>, <<1>>, <<1, 2>>, <<2, 1>>, <<1, 1>>,
     <<1, 2, 3>>, <<3, 2, 1>>, <<2, 1, 3>>, <<1, 1, 2>>, <<1, 2, 2>>}

SetRankings ==
    {Ranking([i \in DOMAIN v |-> num(v[i])], FALSE, "unknown") : v \in SetVectors}

Flags == [exclude_ties : BOOLEAN, penalize_predicted_ties : BOOLEAN, invert_ranks : BOOLEAN]

\* the option bag: ties, the three kendall_tau flags and the cut-off k
\* (0 when absent)
Kwargs(ties, flags, k) ==
    [ties |-> ties, exclude_ties |-> flags.exclude_ties,
     penalize_predicted_ties |-> flags.penalize_predicted_ties,
     invert_ranks |-> flags.invert_ranks, k |-> k]

\* the option bags the set-level calls are made with: the defaults and every
\* flag flipped
SetFlags ==
    {[exclude_ties |-> b, penalize_predicted_ties |-> b, invert_ranks |-> ~b] : b \in BOOLEAN}

DefaultFlags ==
    [exclude_ties |-> TRUE, penalize_predicted_ties |-> TRUE, invert_ranks |-> FALSE]

NoRanking == Ranking(<<>>, FALSE, "unknown")

\* an option bag of allmetrics: given holds the keywords of the call; the
\* field of a keyword that is not given holds the value the function that
\* reads it sets by setdefault ('ceiling', True, True, False) and 0 for k
Options(given, ties, flags, k) ==
    [given |-> given, ties |-> ties, exclude_ties |-> flags.exclude_ties,
     penalize_predicted_ties |-> flags.penalize_predicted_ties,
     invert_ranks |-> flags.invert_ranks, k |-> k]

\* the bags allmetrics is called with: the empty one and one recognized
\* option at a time
OptionBags ==
    {Options({}, "ceiling", DefaultFlags, 0)}
    \cup {Options({"ties"}, t, DefaultFlags, 0) : t \in Policies}
    \cup {Options({"exclude_ties"}, "ceiling",
                  [DefaultFlags EXCEPT !.exclude_ties = FALSE], 0),
          Options({"penalize_predicted_ties"}, "ceiling",
                  [DefaultFlags EXCEPT !.penalize_predicted_ties = FALSE], 0),
          Options({"invert_ranks"}, "ceiling",
                  [DefaultFlags EXCEPT !.invert_ranks = TRUE], 0)}
    \cup {Options({"k"}, "ceiling", DefaultFlags, k) : k \in 1..MaxK}

(***************************************************************************)
(* Segment-level specification: one pair of rank vectors and one call of a *)
(* segment-level function on it (the functions are pure: a second call     *)
(* sees the same inputs)                                                   *)
(***************************************************************************)
Init ==
    /\ predicted_rank_vector \in PredictedRankings
    /\ original_rank_vector \in
          {o \in OriginalRankings : Len(o.list) = Len(predicted_rank_vector.list)}
    /\ predicted_rank_vectors = <<>>
    /\ original_rank_vectors = <<>>
    /\ fn = "none"
    /\ arg = NoRanking
    /\ kwargs = Kwargs("minimize", DefaultFlags, 0)
    /\ result = Return(<<>>)

Inputs == <<predicted_rank_vector, original_rank_vector,
            predicted_rank_vectors, original_rank_vectors>>

\* normalize(v, ties=t) on either vector
Normalize ==
    \E v \in {predicted_rank_vector, original_rank_vector}, t \in Policies :
        /\ fn = "none"
        /\ fn' = "normalize"
        /\ arg' = v
        /\ kwargs' = Kwargs(t, DefaultFlags, 0)
        /\ result' = normalize_call(v.list, t)
        /\ UNCHANGED Inputs

\* invert(v, ties=t) on either vector
Invert ==
    \E v \in {predicted_rank_vector, original_rank_vector}, t \in Policies :
        /\ fn = "none"
        /\ fn' = "invert"
        /\ arg' = v
        /\ kwargs' = Kwargs(t, DefaultFlags, 0)
        /\ result' = invert(v.list, t)
        /\ UNCHANGED Inputs

\* v.inverse(ties=t) on either vector
Inverse ==
    \E v \in {predicted_rank_vector, original_rank_vector}, t \in Policies :
        /\ fn = "none"
        /\ fn' = "inverse"
        /\ arg' = v
        /\ kwargs' = Kwargs(t, DefaultFlags, 0)
        /\ result' = Ranking_inverse(v, t)
        /\ UNCHANGED Inputs

\* kendall_tau(predicted, original, ties=t, exclude_ties=.., ...); the two
\* vectors are normalized with ties=t before any of the flags is read
KendallTau ==
    /\ fn = "none"
    /\ \E t \in Policies :
          \E after \in {kendall_tau_inputs(predicted_rank_vector, original_rank_vector,
                                           [ties |-> t])} :
              \E f \in Flags :
                  /\ fn' = "kendall_tau"
                  /\ arg' = NoRanking
                  /\ kwargs' = Kwargs(t, f, 0)
                  /\ result' = Return(kendall_tau(predicted_rank_vector,
                                                  original_rank_vector, Kwargs(t, f, 0)))
                  /\ predicted_rank_vector' = after[1]
                  /\ original_rank_vector' = after[2]
                  /\ UNCHANGED <<predicted_rank_vectors, original_rank_vectors>>

\* ndgc_err(predicted, original, k); the cut-off is used after
\* _calculate_gains has returned
NdgcErr ==
    /\ fn = "none"
    /\ \E made \in {ndgc_err_gains_heap(<<predicted_rank_vector, original_rank_vector>>,
                                        1, 2)} :
          \E k \in 0..MaxLen :
              /\ fn' = "ndgc_err"
              /\ arg' = NoRanking
              /\ kwargs' = Kwargs("ceiling", DefaultFlags, k)
              /\ result' = ndgc_err(predicted_rank_vector, original_rank_vector, k)
              /\ \E after \in {ndgc_err_idcg_heap(made, k)} :
                    /\ predicted_rank_vector' = after.heap[1]
                    /\ original_rank_vector' = after.heap[2]
              /\ UNCHANGED <<predicted_rank_vectors, original_rank_vectors>>

\* reciprocal_rank(predicted, original) and
\* reciprocal_rank(predicted, original, ties=t)
ReciprocalRank ==
    \E t \in Policies \cup {"absent"} :
        /\ fn = "none"
        /\ fn' = "reciprocal_rank"
        /\ arg' = NoRanking
        /\ kwargs' = Kwargs(t, DefaultFlags, 0)
        /\ result' = reciprocal_rank(predicted_rank_vector, original_rank_vector,
                                      Kwargs(t, DefaultFlags, 0))
        /\ \E after \in {reciprocal_rank_inputs(predicted_rank_vector, original_rank_vector,
                                                Kwargs(t, DefaultFlags, 0))} :
              /\ predicted_rank_vector' = after[1]
              /\ original_rank_vector' = after[2]
        /\ UNCHANGED <<predicted_rank_vectors, original_rank_vectors>>

Next == Normalize \/ Invert \/ Inverse \/ KendallTau \/ NdgcErr \/ ReciprocalRank

Spec == Init /\ [][Next]_vars

(***************************************************************************)
(* Segment-level calls on a predicted and a gold vector of different       *)
(* lengths                                                                 *)
(***************************************************************************)
MismatchInit ==
    /\ predicted_rank_vector \in PredictedRankings
    /\ original_rank_vector \in
          {o \in OriginalRankings : Len(o.list) # Len(predicted_rank_vector.list)}
    /\ predicted_rank_vectors = <<>>
    /\ original_rank_vectors = <<>>
    /\ fn = "none"
    /\ arg = NoRanking
    /\ kwargs = Kwargs("minimize", DefaultFlags, 0)
    /\ result = Return(<<>>)

MismatchNext == KendallTau \/ NdgcErr \/ ReciprocalRank

MismatchSpec == MismatchInit /\ [][MismatchNext]_vars

(***************************************************************************)
(* Set-level specification: a sequence of segments and one call of the set *)
(* aggregator on it                                                        *)
(***************************************************************************)
SetInit ==
    /\ predicted_rank_vector = NoRanking
    /\ original_rank_vector = NoRanking
    /\ predicted_rank_vectors \in SeqsOf(SetRankings, 0, MaxSegs)
    /\ original_rank_vectors \in
          {o \in SeqsOf(SetRankings, Len(predicted_rank_vectors), Len(predicted_rank_vectors)) :
              \A i \in DOMAIN o : Len(o[i].list) = Len(predicted_rank_vectors[i].list)}
    /\ fn = "none"
    /\ arg = NoRanking
    /\ kwargs = Kwargs("minimize", DefaultFlags, 0)
    /\ result = Return(<<>>)

\* kendall_tau_set(predicted_rank_vectors, original_rank_vectors, **kwargs)
KendallTauSet ==
    \E f \in SetFlags :
        /\ fn = "none"
        /\ fn' = "kendall_tau_set"
        /\ arg' = NoRanking
        /\ kwargs' = Kwargs("ceiling", f, 0)
        /\ result' = kendall_tau_set(predicted_rank_vectors, original_rank_vectors,
                                     Kwargs("ceiling", f, 0))
        /\ \E after \in {kendall_tau_set_inputs(predicted_rank_vectors, original_rank_vectors,
                                                Kwargs("ceiling", f, 0))} :
              /\ predicted_rank_vectors' = after[1]
              /\ original_rank_vectors' = after[2]
        /\ UNCHANGED <<predicted_rank_vector, original_rank_vector>>

\* mrr(predicted_rank_vectors, original_rank_vectors)
Mrr ==
    /\ fn = "none"
    /\ fn' = "mrr"
    /\ arg' = NoRanking
    /\ kwargs' = Kwargs("ceiling", DefaultFlags, 0)
    /\ result' = mrr(predicted_rank_vectors, original_rank_vectors)
    /\ \E after \in {mrr_inputs(predicted_rank_vectors, original_rank_vectors)} :
          /\ predicted_rank_vectors' = after[1]
          /\ original_rank_vectors' = after[2]
    /\ UNCHANGED <<predicted_rank_vector, original_rank_vector>>

\* best_predicted_vs_human(predicted_rank_vectors, original_rank_vectors)
BestPredictedVsHuman ==
    /\ fn = "none"
    /\ fn' = "best_predicted_vs_human"
    /\ arg' = NoRanking
    /\ kwargs' = Kwargs("minimize", DefaultFlags, 0)
    /\ result' = best_predicted_vs_human(predicted_rank_vectors, original_rank_vectors)
    /\ \E after \in {best_predicted_vs_human_inputs(predicted_rank_vectors,
                                                    original_rank_vectors)} :
          /\ predicted_rank_vectors' = after[1]
          /\ original_rank_vectors' = after[2]
    /\ UNCHANGED <<predicted_rank_vector, original_rank_vector>>

\* avg_predicted_ranked(predicted_rank_vectors, original_rank_vectors)
AvgPredictedRanked ==
    /\ fn = "none"
    /\ fn' = "avg_predicted_ranked"
    /\ arg' = NoRanking
    /\ kwargs' = Kwargs("ceiling", DefaultFlags, 0)
    /\ result' = avg_predicted_ranked(predicted_rank_vectors, original_rank_vectors)
    /\ \E after \in {avg_predicted_ranked_inputs(predicted_rank_vectors,
                                                 original_rank_vectors)} :
          /\ predicted_rank_vectors' = after[1]
          /\ original_rank_vectors' = after[2]
    /\ UNCHANGED <<predicted_rank_vector, original_rank_vector>>

\* avg_ndgc_err(predicted_rank_vectors, original_rank_vectors) and
\* avg_ndgc_err(predicted_rank_vectors, original_rank_vectors, k=k)
AvgNdgcErr ==
    \E k \in 0..MaxK :
        /\ fn = "none"
        /\ fn' = "avg_ndgc_err"
        /\ arg' = NoRanking
        /\ kwargs' = Kwargs("ceiling", DefaultFlags, k)
        /\ result' = avg_ndgc_err(predicted_rank_vectors, original_rank_vectors,
                                  Kwargs("ceiling", DefaultFlags, k))
        /\ \E after \in {avg_ndgc_err_inputs(predicted_rank_vectors, original_rank_vectors,
                                             Kwargs("ceiling", DefaultFlags, k))} :
              /\ predicted_rank_vectors' = after[1]
              /\ original_rank_vectors' = after[2]
        /\ UNCHANGED <<predicted_rank_vector, original_rank_vector>>

SetNext == KendallTauSet \/ Mrr \/ BestPredictedVsHuman \/ AvgPredictedRanked \/ AvgNdgcErr

SetSpec == SetInit /\ [][SetNext]_vars

(***************************************************************************)
(* The evaluation tool: a sequence of segments and one call of allmetrics  *)
(* on it, without options as rankeval.py calls it or with one option       *)
(***************************************************************************)
\* allmetrics(predicted_rank_vectors, original_rank_vectors, **kwargs)
AllMetrics ==
    \E kw \in OptionBags :
        /\ fn = "none"
        /\ fn' = "allmetrics"
        /\ arg' = NoRanking
        /\ kwargs' = kw
        /\ \E run \in {allmetrics_run(predicted_rank_vectors, original_rank_vectors, kw)} :
              /\ result' = run.outcome
              /\ predicted_rank_vectors' = run.predicted
              /\ original_rank_vectors' = run.original
        /\ UNCHANGED <<predicted_rank_vector, original_rank_vector>>

AllMetricsSpec == SetInit /\ [][AllMetrics]_vars

(***************************************************************************)
(* Every function of set.py on the same segments: rank vectors with and    *)
(* without ties, among them the empty one that makes min() and max() raise *)
(***************************************************************************)
FrameVectors == {<<>>, <<1>>, <<1, 1>>, <<2, 1>>, <<1, 2, 2>>, <<2, 1, 3>>}

FrameRankings ==
    {Ranking([i \in DOMAIN v |-> num(v[i])], FALSE, "unknown") : v \in FrameVectors}

FrameInit ==
    /\ predicted_rank_vector = NoRanking
    /\ original_rank_vector = NoRanking
    /\ predicted_rank_vectors \in SeqsOf(FrameRankings, 0, MaxSegs)
    /\ original_rank_vectors \in
          {o \in SeqsOf(FrameRankings, Len(predicted_rank_vectors), Len(predicted_rank_vectors)) :
              \A i \in DOMAIN o : Len(o[i].list) = Len(predicted_rank_vectors[i].list)}
    /\ fn = "none"
    /\ arg = NoRanking
    /\ kwargs = Kwargs("minimize", DefaultFlags, 0)
    /\ result = Return(<<>>)

FrameNext ==
    KendallTauSet \/ Mrr \/ BestPredictedVsHuman \/ AvgPredictedRanked \/ AvgNdgcErr
        \/ AllMetrics

FrameSpec == FrameInit /\ [][FrameNext]_vars

(***************************************************************************)
(* Life of one Ranking object: construction, then any sequence of          *)
(* normalizations and in-place list operations; arg is the object, fn the  *)
(* last operation, result whether it raised                                *)
(***************************************************************************)
\* the slices r[start:stop:step] taken of a list: bounds within the list,
\* step 1 or 2
Slices(list) == [start : 0..Len(list), stop : 0..Len(list), step : 1..MaxStep]

RankingInit ==
    /\ predicted_rank_vector = NoRanking
    /\ original_rank_vector = NoRanking
    /\ predicted_rank_vectors = <<>>
    /\ original_rank_vectors = <<>>
    /\ fn = "Ranking"
    /\ arg \in OriginalRankings
    /\ kwargs = Kwargs("minimize", DefaultFlags, 0)
    /\ result = Return(<<>>)

\* r = r.normalize(ties=t)
RankingNormalize ==
    \E t \in Policies :
        /\ fn' = "Ranking.normalize"
        /\ arg' = Ranking_normalize(arg, t)
        /\ result' = Return(<<>>)
        /\ UNCHANGED <<Inputs, kwargs>>

\* r[key] = value
RankingSetItem ==
    \E key \in 1..(Len(arg.list) + 1), value \in RawRanks :
        /\ fn' = "Ranking.__setitem__"
        /\ arg' = Ranking_setitem(arg, key, value)
        /\ result' = IF key \in DOMAIN arg.list THEN Return(<<>>) ELSE Raise("IndexError")
        /\ UNCHANGED <<Inputs, kwargs>>

\* r[start:stop:step] = values, which reaches Ranking.__setitem__ with a
\* slice as key
RankingSetItemSlice ==
    \E key \in Slices(arg.list), values \in SeqsOf(RawRanks, 0, MaxSliceValues) :
        /\ fn' = "Ranking.__setitem__"
        /\ arg' = Ranking_setitem_slice(arg, key, values)
        /\ result' = Raise("TypeError")
        /\ UNCHANGED <<Inputs, kwargs>>

\* del r[key]
RankingDelItem ==
    \E key \in 1..(Len(arg.list) + 1) :
        /\ fn' = "Ranking.__delitem__"
        /\ arg' = Ranking_delitem(arg, key)
        /\ result' = IF key \in DOMAIN arg.list THEN Return(<<>>) ELSE Raise("IndexError")
        /\ UNCHANGED <<Inputs, kwargs>>

\* del r[start:stop:step], which reaches Ranking.__delitem__ with a slice as
\* key
RankingDelItemSlice ==
    \E key \in Slices(arg.list) :
        /\ fn' = "Ranking.__delitem__"
        /\ arg' = Ranking_delitem_slice(arg, key)
        /\ result' = Return(<<>>)
        /\ UNCHANGED <<Inputs, kwargs>>

\* r[i:j] = values, which Python 2 passes to list.__setslice__
RankingSetSlice ==
    \E i \in 0..Len(arg.list), j \in 0..Len(arg.list),
       values \in SeqsOf(RawRanks, 0, MaxSliceValues) :
        /\ Len(list_setslice(arg, i, j, values).list) <= MaxLen
        /\ fn' = "list.__setslice__"
        /\ arg' = list_setslice(arg, i, j, values)
        /\ result' = Return(<<>>)
        /\ UNCHANGED <<Inputs, kwargs>>

\* del r[i:j], which Python 2 passes to list.__delslice__
RankingDelSlice ==
    \E i \in 0..Len(arg.list), j \in 0..Len(arg.list) :
        /\ fn' = "list.__delslice__"
        /\ arg' = list_delslice(arg, i, j)
        /\ result' = Return(<<>>)
        /\ UNCHANGED <<Inputs, kwargs>>

\* r += values
RankingIAdd ==
    \E values \in SeqsOf(RawRanks, 0, MaxSliceValues) :
        /\ Len(arg.list) + Len(values) <= MaxLen
        /\ fn' = "list.__iadd__"
        /\ arg' = list_iadd(arg, values)
        /\ result' = Return(<<>>)
        /\ UNCHANGED <<Inputs, kwargs>>

\* r *= n
RankingIMul ==
    \E n \in (-1)..MaxCopies :
        /\ n * Len(arg.list) <= MaxLen
        /\ fn' = "list.__imul__"
        /\ arg' = list_imul(arg, n)
        /\ result' = Return(<<>>)
        /\ UNCHANGED <<Inputs, kwargs>>

\* r.append(value)
RankingAppend ==
    \E value \in RawRanks :
        /\ Len(arg.list) < MaxLen
        /\ fn' = "list.append"
        /\ arg' = list_append(arg, value)
        /\ result' = Return(<<>>)
        /\ UNCHANGED <<Inputs, kwargs>>

\* r.extend([value, value2])
RankingExtend ==
    \E values \in SeqsOf(RawRanks, 2, 2) :
        /\ Len(arg.list) + 2 <= MaxLen
        /\ fn' = "list.extend"
        /\ arg' = list_extend(arg, values)
        /\ result' = Return(<<>>)
        /\ UNCHANGED <<Inputs, kwargs>>

\* r.insert(index, value)
RankingInsert ==
    \E index \in 1..(Len(arg.list) + 1), value \in RawRanks :
        /\ Len(arg.list) < MaxLen
        /\ fn' = "list.insert"
        /\ arg' = list_insert(arg, index, value)
        /\ result' = Return(<<>>)
        /\ UNCHANGED <<Inputs, kwargs>>

\* r.pop(): IndexError on an empty list
RankingPop ==
    /\ fn' = "list.pop"
    /\ arg' = IF arg.list = <<>> THEN arg ELSE list_pop(arg)
    /\ result' = IF arg.list = <<>> THEN Raise("IndexError") ELSE Return(<<>>)
    /\ UNCHANGED <<Inputs, kwargs>>

\* r.remove(value): ValueError when the value is not in the list
RankingRemove ==
    \E value \in RawRanks :
        /\ fn' = "list.remove"
        /\ arg' = IF indexes(arg.list, value) = {} THEN arg ELSE list_remove(arg, value)
        /\ result' = IF indexes(arg.list, value) = {} THEN Raise("ValueError")
                     ELSE Return(<<>>)
        /\ UNCHANGED <<Inputs, kwargs>>

\* r.sort()
RankingSort ==
    /\ fn' = "list.sort"
    /\ arg' = list_sort(arg)
    /\ result' = Return(<<>>)
    /\ UNCHANGED <<Inputs, kwargs>>

\* r.reverse()
RankingReverse ==
    /\ fn' = "list.reverse"
    /\ arg' = list_reverse(arg)
    /\ result' = Return(<<>>)
    /\ UNCHANGED <<Inputs, kwargs>>

RankingNext ==
    \/ RankingNormalize \/ RankingSetItem \/ RankingDelItem \/ RankingAppend
    \/ RankingExtend \/ RankingInsert \/ RankingPop \/ RankingRemove
    \/ RankingSort \/ RankingReverse
    \/ RankingSetItemSlice \/ RankingDelItemSlice \/ RankingSetSlice
    \/ RankingDelSlice \/ RankingIAdd \/ RankingIMul

RankingSpec == RankingInit /\ [][RankingNext]_vars

(***************************************************************************)
(* Properties of the segment-level functions (specification Spec)          *)
(***************************************************************************)
\* the two vectors as kendall_tau normalizes them for the call in the state
NormPredicted == Ranking_normalize(predicted_rank_vector, kwargs.ties).list
NormOriginal == Ranking_normalize(original_rank_vector, kwargs.ties).list

\* the index pairs (i, j), i < j, of the segment
IndexPairs ==
    {pr \in (DOMAIN predicted_rank_vector.list) \X (DOMAIN predicted_rank_vector.list) :
        pr[1] < pr[2]}

HasSentinel(v) == \E i \in DOMAIN v : v[i] = num(-1)
TieFree(v) == \A i, j \in DOMAIN v : i # j => v[i] # v[j]
IsDefaultFlags ==
    kwargs.exclude_ties /\ kwargs.penalize_predicted_ties /\ ~kwargs.invert_ranks

\* what the classification of kendall_tau adds for the index pair pr alone
PairCounts(pr) ==
    LET inv == IF kwargs.invert_ranks THEN -1 ELSE 1 IN
    kendall_tau_pair(
        [concordant_count |-> 0, discordant_count |-> 0,
         original_ties |-> 0, predicted_ties |-> 0, pairs |-> 0],
        <<inv * NormOriginal[pr[1]], inv * NormOriginal[pr[2]]>>,
        <<NormPredicted[pr[1]], NormPredicted[pr[2]]>>,
        kwargs.exclude_ties, kwargs.penalize_predicted_ties)

\* the index pairs neither of whose RAW gold values is the sentinel -1
JudgedPairs ==
    {pr \in IndexPairs : /\ original_rank_vector.list[pr[1]] # num(-1)
                         /\ original_rank_vector.list[pr[2]] # num(-1)}

\* C1 (as claimed): a pair whose raw gold value is -1 at i or at j adds
\* nothing to concordant, discordant or valid_pairs: the counts of
\* kendall_tau are those of the pairs whose two raw gold values differ from -1
C1_SentinelPairsExcluded ==
    fn = "kendall_tau" =>
        /\ result.value.concordant_count =
              Cardinality({pr \in JudgedPairs : PairCounts(pr).concordant_count = 1})
        /\ result.value.discordant_count =
              Cardinality({pr \in JudgedPairs : PairCounts(pr).discordant_count = 1})
        /\ result.value.all_pairs_count =
              Cardinality({pr \in JudgedPairs : PairCounts(pr).concordant_count = 1
                                                \/ PairCounts(pr).discordant_count = 1})

\* the reference dense rank of item idx of v under a policy (in halves)
ReferenceRank(v, policy, idx) ==
    LET c == Cardinality({i \in DOMAIN v : v[i] = v[idx]})
        s == 1 + Cardinality({i \in DOMAIN v : v[i] < v[idx]})
        d == 1 + Cardinality({v[i] : i \in {x \in DOMAIN v : v[x] < v[idx]}})
    IN  CASE policy = "floor" -> 2 * s
          [] policy = "ceiling" -> 2 * (s + c - 1)
          [] policy = "middle" -> 2 * s + (c - 1)
          [] policy = "minimize" -> 2 * d

\* C2: normalize(v, policy) is the reference dense ranking: s under floor,
\* s + c - 1 under ceiling, s + (c - 1)/2 under middle, 1 + number of
\* distinct smaller values under minimize, written at the original index
C2_NormalizeIsReference ==
    fn = "normalize" =>
        /\ result.raised = "none"
        /\ DOMAIN result.value = DOMAIN arg.list
        /\ \A idx \in DOMAIN arg.list :
              result.value[idx] = ReferenceRank(arg.list, kwargs.ties, idx)

\* a tied vector of three items normalized under 'middle' to a fractional rank
C2_Witness ==
    /\ fn = "normalize"
    /\ kwargs.ties = "middle"
    /\ Len(arg.list) = 3
    /\ \E i \in DOMAIN result.value : result.value[i] % 2 = 1
    /\ \E i \in DOMAIN result.value : result.value[i] = num(3)

\* C3 (as claimed): invert(v, policy) and Ranking.inverse return
\* normalize(-v, policy) and complete without error
C3_InvertIsNormalizeOfNegated ==
    LET negated == [i \in DOMAIN arg.list |-> -arg.list[i]] IN
    /\ fn = "invert" =>
          /\ result.raised = "none"
          /\ result.value = normalize(negated, kwargs.ties)
    /\ fn = "inverse" =>
          /\ result.raised = "none"
          /\ result.value = Ranking(normalize(negated, kwargs.ties), FALSE, kwargs.ties)

\* the predicted ranks as ndgc_err uses them: ceiling-normalized integers
NdgcPredicted ==
    Ranking_integers(Ranking_normalize(predicted_rank_vector, "ceiling")).list

IsPermutation(r) == {units(r[i]) : i \in DOMAIN r} = 1..Len(r)

\* C4 (as claimed): when the ceiling-normalized integer predicted ranks are
\* not a permutation of 1..n, ndgc_err fails instead of returning (ndcg, err)
C4_NonPermutationRejected ==
    (fn = "ndgc_err" /\ ~IsPermutation(NdgcPredicted)) => result.raised # "none"

\* C5: with default flags and no -1 in gold, a pair with equal gold ranks
\* counts nowhere, a pair with different gold ranks is concordant when the
\* predicted ranks are strictly ordered the same way and discordant otherwise
C5_DefaultClassification ==
    (fn = "kendall_tau" /\ IsDefaultFlags /\ ~HasSentinel(original_rank_vector.list)) =>
        LET g == NormOriginal
            p == NormPredicted
            untied == {pr \in IndexPairs : g[pr[1]] # g[pr[2]]}
            agree == {pr \in untied :
                         \/ (g[pr[1]] < g[pr[2]] /\ p[pr[1]] < p[pr[2]])
                         \/ (g[pr[1]] > g[pr[2]] /\ p[pr[1]] > p[pr[2]])}
        IN  /\ result.value.concordant_count = Cardinality(agree)
            /\ result.value.discordant_count = Cardinality(untied \ agree)
            /\ result.value.all_pairs_count = Cardinality(untied)

\* three items: one gold tie, one concordant pair and one pair that is
\* discordant only because the predicted ranks are tied
C5_Witness ==
    /\ fn = "kendall_tau" /\ IsDefaultFlags
    /\ ~HasSentinel(original_rank_vector.list)
    /\ Len(predicted_rank_vector.list) = 3
    /\ result.value.original_ties = 1
    /\ result.value.predicted_ties = 1
    /\ result.value.concordant_count = 1
    /\ result.value.discordant_count = 1

\* C6: valid_pairs = concordant + discordant; tau = (concordant -
\* discordant) / valid_pairs when valid_pairs > 0; tau and prob are None,
\* and nothing is raised, when valid_pairs = 0
C6_TauFromCounts ==
    fn = "kendall_tau" =>
        LET r == result.value IN
        /\ result.raised = "none"
        /\ r.all_pairs_count = r.concordant_count + r.discordant_count
        /\ r.all_pairs_count > 0 =>
              /\ r.tau.kind = "float"
              /\ r.tau.den > 0
              /\ r.tau.num * r.all_pairs_count
                    = (r.concordant_count - r.discordant_count) * r.tau.den
              /\ r.prob.kind = "prob"
        /\ r.all_pairs_count = 0 => (r.tau = None /\ r.prob.kind = "None")

\* a segment with three pairs none of which is valid: tau is undefined
C6_Witness ==
    /\ fn = "kendall_tau"
    /\ result.raised = "none"
    /\ result.value.pairs = 3
    /\ result.value.all_pairs_count = 0
    /\ result.value.tau = None

\* w orders the items exactly the other way round than v
IsReversal(v, w) ==
    /\ Len(v) = Len(w)
    /\ \A i, j \in DOMAIN v : (v[i] < v[j]) <=> (w[i] > w[j])

\* C7: with valid_pairs > 0, -1 <= tau <= 1, tau = 1 exactly when
\* discordant = 0 and tau = -1 exactly when concordant = 0; a tie-free vector
\* of n >= 2 ranks against itself gives n(n-1)/2 concordant pairs and tau 1,
\* against its reversal (the ranking that orders every pair the other way
\* round) n(n-1)/2 discordant pairs and tau -1
C7_TauBounds ==
    fn = "kendall_tau" =>
        LET r == result.value
            p == predicted_rank_vector.list
            g == original_rank_vector.list
            n == Len(p)
            plain == TieFree(p) /\ TieFree(g) /\ ~HasSentinel(g) /\ n >= 2
                     /\ ~kwargs.invert_ranks
        IN  /\ r.all_pairs_count > 0 =>
                  /\ -r.tau.den <= r.tau.num /\ r.tau.num <= r.tau.den
                  /\ (r.tau = Frac(1, 1)) <=> (r.discordant_count = 0)
                  /\ (r.tau = Frac(-1, 1)) <=> (r.concordant_count = 0)
            /\ (plain /\ p = g) =>
                  /\ r.concordant_count = (n * (n - 1)) \div 2
                  /\ r.discordant_count = 0
                  /\ r.tau = Frac(1, 1)
            /\ (plain /\ IsReversal(p, g)) =>
                  /\ r.concordant_count = 0
                  /\ r.discordant_count = (n * (n - 1)) \div 2
                  /\ r.tau = Frac(-1, 1)

\* a tie-free ranking of two items against its reversal: tau = -1
C7_Witness ==
    /\ fn = "kendall_tau"
    /\ Len(predicted_rank_vector.list) = 2
    /\ TieFree(predicted_rank_vector.list)
    /\ ~HasSentinel(original_rank_vector.list)
    /\ IsReversal(predicted_rank_vector.list, original_rank_vector.list)
    /\ ~kwargs.invert_ranks
    /\ result.value.concordant_count = 0
    /\ result.value.discordant_count = 1
    /\ result.value.tau = Frac(-1, 1)

\* the indices at which v attains its minimum
ArgMin(v) == {i \in DOMAIN v : \A j \in DOMAIN v : v[i] <= v[j]}

RRCall ==
    /\ fn = "reciprocal_rank"
    /\ Len(predicted_rank_vector.list) > 0
    /\ Len(original_rank_vector.list) = Len(predicted_rank_vector.list)

\* C15 (as claimed): for non-empty vectors of equal length 0 <
\* reciprocal_rank <= 1, and reciprocal_rank = 1 exactly when some item that
\* holds the minimum gold rank also holds the minimum predicted rank, tied
\* predicted ranks included
C15_ReciprocalRankBounds ==
    RRCall =>
        /\ result.raised = "none"
        /\ result.value.num > 0
        /\ result.value.num <= result.value.den
        /\ (result.value = Frac(1, 1)) <=>
              (ArgMin(original_rank_vector.list) \cap ArgMin(predicted_rank_vector.list) # {})

\* the tie policy a call without the keyword ties runs under
RRPolicy == IF kwargs.ties = "absent" THEN "ceiling" ELSE kwargs.ties

\* C16: reciprocal_rank = 1 / m, m being the minimum rank, normalized under
\* the tie policy (ceiling when none is given), of the predicted vector over
\* exactly the indices at which the normalized gold vector attains its
\* minimum
C16_ReciprocalRankValue ==
    RRCall =>
        LET g == [i \in DOMAIN original_rank_vector.list |->
                     ReferenceRank(original_rank_vector.list, RRPolicy, i)]
            p == [i \in DOMAIN predicted_rank_vector.list |->
                     ReferenceRank(predicted_rank_vector.list, RRPolicy, i)]
            m == SetMin({p[i] : i \in ArgMin(g)})
        IN  /\ result.raised = "none"
            \* 1 / m, m counted in halves
            /\ result.value.num * m = 2 * result.value.den

\* a call without the keyword ties on three items, two of them tied for the
\* best gold rank with different predicted ranks, the better one tied
C16_Witness ==
    /\ RRCall
    /\ kwargs.ties = "absent"
    /\ Len(predicted_rank_vector.list) = 3
    /\ Cardinality(ArgMin(original_rank_vector.list)) = 2
    /\ \E i, j \in ArgMin(original_rank_vector.list) :
          predicted_rank_vector.list[i] < predicted_rank_vector.list[j]
    /\ result.value = Frac(1, 2)

NormalizeReturned == fn = "normalize" /\ result.raised = "none"

\* C23: for an input with pairwise distinct values normalize returns, under
\* each of the four policies, the permutation of 1..n that gives every item
\* 1 + the number of smaller items, and normalizing that output again under
\* any policy returns it unchanged
C23_TieFreeNormalization ==
    (fn = "normalize" /\ TieFree(arg.list)) =>
        /\ result.raised = "none"
        /\ DOMAIN result.value = DOMAIN arg.list
        /\ \A i \in DOMAIN arg.list :
              result.value[i] =
                 num(1 + Cardinality({j \in DOMAIN arg.list : arg.list[j] < arg.list[i]}))
        /\ {units(result.value[i]) : i \in DOMAIN result.value} = 1..Len(arg.list)
        /\ \A t \in Policies :
              /\ normalize_call(arg.list, t) = result
              /\ normalize_call(result.value, t) = result

\* three distinct raw values, the sentinel among them, that are not their own
\* ranks
C23_Witness ==
    /\ NormalizeReturned
    /\ TieFree(arg.list)
    /\ Len(arg.list) = 3
    /\ HasSentinel(arg.list)
    /\ result.value # arg.list
    /\ result.value[1] = num(3)

\* the sum of the multiplicities in v of the values of the set todo
RECURSIVE Multiplicities(_, _)
Multiplicities(v, todo) ==
    IF todo = {} THEN 0
    ELSE count(v, SetMin(todo)) + Multiplicities(v, todo \ {SetMin(todo)})

\* C24: for every input, the empty one included, and every policy, the
\* multiplicities of the distinct raw values sum to n, the output has a
\* value between 1 and n at each of the n positions, and the final
\* assertion of normalize holds
C24_NoHoles ==
    fn = "normalize" =>
        /\ Multiplicities(arg.list, {arg.list[i] : i \in DOMAIN arg.list}) = Len(arg.list)
        /\ result.raised = "none"
        /\ normalize_assert(arg.list, kwargs.ties)
        /\ DOMAIN result.value = 1..Len(arg.list)
        /\ \A i \in DOMAIN result.value :
              num(1) <= result.value[i] /\ result.value[i] <= num(Len(arg.list))
        /\ arg.list = <<>> => result.value = <<>>

\* three items, a tied pair and the sentinel, under 'ceiling': the tied pair
\* takes the last rank n
C24_Witness ==
    /\ NormalizeReturned
    /\ kwargs.ties = "ceiling"
    /\ Len(arg.list) = 3
    /\ ~TieFree(arg.list)
    /\ arg.list[1] = num(-1)
    /\ result.value = <<num(1), num(3), num(3)>>

\* C30: normalize(normalize(v, p), p) = normalize(v, p) for every vector v,
\* tied or not, and every policy p, and the output keeps the relative order
\* of the input: a smaller value gets a smaller rank, equal values get equal
\* ranks
C30_NormalizeIdempotent ==
    fn = "normalize" =>
        /\ result.raised = "none"
        /\ normalize_call(result.value, kwargs.ties) = result
        /\ \A i, j \in DOMAIN arg.list :
              /\ arg.list[i] < arg.list[j] => result.value[i] < result.value[j]
              /\ arg.list[i] = arg.list[j] => result.value[i] = result.value[j]

\* a tied pair ahead of a third item under 'middle': the pair takes the
\* fractional rank 1.5, which normalizes to itself
C30_Witness ==
    /\ NormalizeReturned
    /\ kwargs.ties = "middle"
    /\ Len(arg.list) = 3
    /\ result.value = <<3, num(3), 3>>
    /\ result.value # arg.list

(***************************************************************************)
(* Properties of calls on vectors of different lengths (specification      *)
(* MismatchSpec)                                                           *)
(***************************************************************************)
\* C17 (as claimed): when the predicted and the gold vector differ in
\* length, kendall_tau, reciprocal_rank and ndgc_err each fail with an error
\* and return no metric value
C17_MismatchedLengthsRejected ==
    (/\ fn \in {"kendall_tau", "reciprocal_rank", "ndgc_err"}
     /\ Len(predicted_rank_vector.list) # Len(original_rank_vector.list))
        => result.raised # "none"

(***************************************************************************)
(* Properties of the Ranking object (specification RankingSpec)            *)
(***************************************************************************)
\* the operations that change the list in place
InPlaceMutations ==
    {"Ranking.__setitem__", "Ranking.__delitem__", "list.append", "list.extend",
     "list.insert", "list.pop", "list.remove", "list.sort", "list.reverse",
     "list.__setslice__", "list.__delslice__", "list.__iadd__", "list.__imul__"}

\* C18 (as claimed): the tag normalization names a tie policy only while
\* the contents are what normalization under that policy produced, with no
\* in-place mutation since: after every in-place mutation the tag is
\* 'unknown' until the next normalization
C18_TagUnknownAfterMutation ==
    /\ (fn \in InPlaceMutations /\ result.raised = "none") => arg.normalization = "unknown"
    /\ arg.normalization \in Policies =>
          (fn = "Ranking.normalize" /\ arg.list = normalize(arg.list, arg.normalization))

(***************************************************************************)
(* Properties of the set aggregator (specification SetSpec)                *)
(***************************************************************************)
\* the Result of segment.kendall_tau for segment i of the set-level input
SegmentResult(i) ==
    kendall_tau(predicted_rank_vectors[i], original_rank_vectors[i], kwargs)

Segments == DOMAIN predicted_rank_vectors

\* the sum of f[i] over the segments 1..i
RECURSIVE SumOver(_, _)
SumOver(f, i) == IF i = 0 THEN 0 ELSE f[i] + SumOver(f, i - 1)

SegmentSum(f) == SumOver(f, Len(predicted_rank_vectors))

\* the per-segment taus of the segments with valid_pairs > 0, in input order
RECURSIVE DefinedTaus(_)
DefinedTaus(i) ==
    IF i = 0 THEN <<>>
    ELSE IF SegmentResult(i).all_pairs_count > 0
         THEN Append(DefinedTaus(i - 1), SegmentResult(i).tau)
         ELSE DefinedTaus(i - 1)

SetReturned == fn = "kendall_tau_set" /\ result.raised = "none"

\* C8 (as claimed): tau_avg_seg is the mean of the per-segment tau over
\* exactly the segments with valid_pairs > 0, and the counts of every
\* segment, left out of the average or not, are in the pooled totals
C8_AvgSegTauOverValidSegments ==
    SetReturned =>
        /\ result.value.tau_avg_seg = average(DefinedTaus(Len(predicted_rank_vectors)))
        /\ result.value.tau_concordant =
              SegmentSum([i \in Segments |-> SegmentResult(i).concordant_count])
        /\ result.value.tau_discordant =
              SegmentSum([i \in Segments |-> SegmentResult(i).discordant_count])
        /\ result.value.tau_valid_pairs =
              SegmentSum([i \in Segments |-> SegmentResult(i).all_pairs_count])

\* C9 (as claimed): tau_predicted_ties_per is 100 * (sum of the segments'
\* predicted ties) / (sum of the segments' pairs)
C9_PredictedTiesPercentage ==
    SetReturned =>
        result.value.tau_predicted_ties_per =
            Frac(100 * SegmentSum([i \in Segments |-> SegmentResult(i).predicted_ties]),
                 SegmentSum([i \in Segments |-> SegmentResult(i).pairs]))

\* C10 (as claimed): tau_sentence_ties_per is 100 * (number of segments
\* with a predicted tie) / (number of segments), and never exceeds 100
C10_SentenceTiesPercentage ==
    SetReturned =>
        /\ result.value.tau_sentence_ties_per =
              Frac(100 * Cardinality({i \in Segments : SegmentResult(i).predicted_ties > 0}),
                   Len(predicted_rank_vectors))
        /\ result.value.tau_sentence_ties_per.num
              <= 100 * result.value.tau_sentence_ties_per.den

\* entry j of a coefficient list (the coefficient of 1/ln(j+1)), 0 beyond
\* its end
LogCoeff(l, j) == IF j <= Len(l) THEN l[j] ELSE Frac(0, 1)

\* a coefficient list of at most four entries over the independent terms
\* 1/ln 2, 1/ln 3, 1/ln 5: 1/ln 4 is (1/2) / ln 2
LogBasis(l) ==
    <<FAdd(LogCoeff(l, 1), FDivInt(LogCoeff(l, 3), 2)), LogCoeff(l, 2), LogCoeff(l, 4)>>

NdcgDcg(ndcg) == IF ndcg.kind = "one" THEN <<Frac(1, 1)>> ELSE ndcg.dcg
NdcgIdeal(ndcg) == IF ndcg.kind = "one" THEN <<Frac(1, 1)>> ELSE ndcg.ideal_dcg

\* two NDCG values are the same number: dcg_v * ideal_w = dcg_w * ideal_v,
\* compared term by term over the products of the independent terms
SameNdcg(v, w) ==
    \E vd \in {LogBasis(NdcgDcg(v))}, vi \in {LogBasis(NdcgIdeal(v))},
       wd \in {LogBasis(NdcgDcg(w))}, wi \in {LogBasis(NdcgIdeal(w))} :
        \A x, y \in 1..3 :
           FAdd(FMul(vd[x], wi[y]), FMul(vd[y], wi[x]))
              = FAdd(FMul(wd[x], vi[y]), FMul(wd[y], vi[x]))

\* ndgc_err of segment i at the cut-off the caller gave or, when none was
\* given, at the segment's own length
OwnCutoffNdgcErr(i) ==
    ndgc_err(predicted_rank_vectors[i], original_rank_vectors[i],
             IF kwargs.k = 0 THEN Len(predicted_rank_vectors[i].list) ELSE kwargs.k)

\* C11 (as claimed): avg_ndgc_err averages, over the segments s,
\* ndgc_err(predicted_s, gold_s, k) with k the supplied cut-off or, when none
\* is supplied, the own length of segment s
C11_CutoffIsSegmentLength ==
    (fn = "avg_ndgc_err" /\ result.raised = "none") =>
        /\ Len(result.value.ndgc.of) = Len(predicted_rank_vectors)
        /\ \A i \in Segments :
              SameNdcg(result.value.ndgc.of[i], OwnCutoffNdgcErr(i).value.ndcg)

\* C12 (as claimed): for every segment, the value avg_predicted_ranked
\* averages (the worst gold rank among the items with the best predicted
\* rank) is the gold rank under which best_predicted_vs_human counts the
\* segment, tied vectors included
C12_SameSegmentValueAsBph ==
    (fn = "avg_predicted_ranked" /\ result.raised = "none") =>
        \A i \in Segments :
            avg_predicted_ranked_segment(predicted_rank_vectors[i],
                                         original_rank_vectors[i]).value
              = best_predicted_vs_human_segment(predicted_rank_vectors[i],
                                                original_rank_vectors[i]).value

\* C13 (as claimed): for a non-empty sequence of segment pairs of equal
\* lengths, segments without valid pairs included, kendall_tau_set returns
\* its stats and raises nothing
C13_ZeroValidPairsNeverAborts ==
    (/\ fn = "kendall_tau_set"
     /\ Len(predicted_rank_vectors) > 0
     /\ \A i \in Segments :
           Len(predicted_rank_vectors[i].list) = Len(original_rank_vectors[i].list))
        => result.raised = "none"

\* the sums over the segments of the counts segment.kendall_tau returns
PooledConcordant == SegmentSum([i \in Segments |-> SegmentResult(i).concordant_count])
PooledDiscordant == SegmentSum([i \in Segments |-> SegmentResult(i).discordant_count])
PooledValid == SegmentSum([i \in Segments |-> SegmentResult(i).all_pairs_count])

\* C14 (as claimed): when the segments have at least one valid pair
\* overall, kendall_tau_set returns its stats, the tau among them is (sum of concordant - sum of discordant) / (sum
\* of concordant + sum of discordant), and tau_concordant, tau_discordant
\* and tau_valid_pairs are the sums of the per-segment counts
C14_PooledTau ==
    fn = "kendall_tau_set" =>
        \E c \in {PooledConcordant}, d \in {PooledDiscordant}, v \in {PooledValid} :
            v > 0 =>
                /\ result.raised = "none"
                /\ result.value.tau_concordant = c
                /\ result.value.tau_discordant = d
                /\ result.value.tau_valid_pairs = v
                /\ c + d > 0
                /\ result.value.tau.kind = "float"
                /\ result.value.tau.num * (c + d) = (c - d) * result.value.tau.den

\* the sequence s in the opposite order
Reversed(s) == [i \in 1..Len(s) |-> s[Len(s) + 1 - i]]

\* the stats of kendall_tau_set with the factors of tau_avg_seg_prob in the
\* opposite order
ReversedFactors(outcome) ==
    IF outcome.raised # "none" THEN outcome
    ELSE Return([outcome.value EXCEPT !.tau_avg_seg_prob = Reversed(@)])

\* the outcome of avg_ndgc_err is that of other with the per-segment NDCG
\* values in the opposite order
SameAvgNdgcErr(outcome, other) ==
    /\ outcome.raised = other.raised
    /\ outcome.raised = "none" =>
          /\ outcome.value.err = other.value.err
          /\ Len(outcome.value.ndgc.of) = Len(other.value.ndgc.of)
          /\ \A i \in DOMAIN outcome.value.ndgc.of :
                SameNdcg(outcome.value.ndgc.of[i],
                         other.value.ndgc.of[Len(other.value.ndgc.of) + 1 - i])

\* C19 (as claimed): the same permutation (here the reversal) of the
\* predicted and the gold segment sequence leaves every entry of the result
\* of kendall_tau_set, mrr, best_predicted_vs_human, avg_predicted_ranked
\* and avg_ndgc_err unchanged
C19_OrderIndependent ==
    \E rp \in {Reversed(predicted_rank_vectors)}, ro \in {Reversed(original_rank_vectors)} :
        /\ fn = "kendall_tau_set" =>
              \E other \in {kendall_tau_set(rp, ro, kwargs)} : result = ReversedFactors(other)
        /\ fn = "mrr" => result = mrr(rp, ro)
        /\ fn = "best_predicted_vs_human" => result = best_predicted_vs_human(rp, ro)
        /\ fn = "avg_predicted_ranked" => result = avg_predicted_ranked(rp, ro)
        /\ fn = "avg_ndgc_err" =>
              \E other \in {avg_ndgc_err(rp, ro, kwargs)} : SameAvgNdgcErr(result, other)

\* the segments best_predicted_vs_human tallies: those with items
Scored == {i \in Segments : predicted_rank_vectors[i].list # <<>>}

\* the minimize-normalized gold ranks of the items of segment i that hold
\* the minimum predicted rank
TopPickGoldRanks(i) ==
    {ReferenceRank(original_rank_vectors[i].list, "minimize", j) :
        j \in ArgMin(predicted_rank_vectors[i].list)}

\* the observed outcome of segment i: the worst of these gold ranks
ObservedOutcome(i) ==
    CHOOSE r \in TopPickGoldRanks(i) : \A y \in TopPickGoldRanks(i) : y <= r

\* x is 100 * c / n rounded to two decimals
IsPercentage(x, c, n) ==
    /\ x.kind = "float"
    /\ 100 % x.den = 0
    /\ 2 * Abs(x.num * (100 \div x.den) * n - 100 * 100 * c) <= n

\* C20: best_predicted_vs_human maps each gold rank r that is the observed
\* outcome of at least one segment, and no other, to 100 * (number of
\* segments with observed outcome r) / (number of segments) rounded to two
\* decimals, the observed outcome being the maximum normalized gold rank
\* among the items with the minimum normalized predicted rank
C20_BestPredictedVsHuman ==
    fn = "best_predicted_vs_human" =>
        \E outcome \in {[i \in Scored |-> ObservedOutcome(i)]} :
            /\ result.raised = "none"
            /\ DOMAIN result.value = {outcome[i] : i \in Scored}
            /\ \A r \in DOMAIN result.value :
                  IsPercentage(result.value[r],
                               Cardinality({i \in Scored : outcome[i] = r}),
                               Len(predicted_rank_vectors))

\* two segments with different observed outcomes, one of them with a tie
\* for the best predicted rank whose items have different gold ranks: two
\* keys of 50 percent each
C20_Witness ==
    /\ fn = "best_predicted_vs_human"
    /\ result.raised = "none"
    /\ Len(predicted_rank_vectors) = 2
    /\ Cardinality(DOMAIN result.value) = 2
    /\ \A r \in DOMAIN result.value : result.value[r] = Frac(50, 1)
    /\ \E i \in Scored : Cardinality(TopPickGoldRanks(i)) = 2

(***************************************************************************)
(* Properties of ndgc_err (specification Spec)                             *)
(***************************************************************************)
\* the sum of the first m coefficients of a list
RECURSIVE CoeffSum(_, _)
CoeffSum(l, m) == IF m = 0 THEN Frac(0, 1) ELSE FAdd(l[m], CoeffSum(l, m - 1))

\* the sum of d[j]/ln(j+1) is at most that of s[j]/ln(j+1): the weights
\* 1/ln(j+1) are positive and decrease with j, so it is enough that every
\* prefix of d sums to no more than the same prefix of s
DcgAtMost(d, s) ==
    /\ Len(d) = Len(s)
    /\ \A m \in 1..Len(d) :
          \E dm \in {CoeffSum(d, m)}, sm \in {CoeffSum(s, m)} : ~FLess(sm, dm)

\* v and w order the items the same way
SameOrder(v, w) ==
    /\ Len(v) = Len(w)
    /\ \A i, j \in DOMAIN v : (v[i] < v[j]) <=> (w[i] < w[j])

\* a call of ndgc_err on two tie-free vectors of equal length
NdgcTieFreeCall ==
    /\ fn = "ndgc_err"
    /\ Len(original_rank_vector.list) = Len(predicted_rank_vector.list)
    /\ TieFree(predicted_rank_vector.list)
    /\ TieFree(original_rank_vector.list)

\* C22 (as claimed): for tie-free vectors of equal length and every cut-off k,
\* ndgc_err returns; DCG and the ideal DCG have no negative term and DCG is
\* at most the ideal DCG, so ndcg >= 0; the division takes place only when
\* the ideal DCG is not 0, and otherwise ndcg is 1.0; ndcg is 1.0 when the
\* predicted vector orders the items as the gold vector does
C22_NdcgBounds ==
    NdgcTieFreeCall =>
        /\ result.raised = "none"
        /\ \E ndcg \in {result.value.ndcg} :
              /\ ndcg.kind \in {"ratio", "one"}
              /\ ndcg.kind = "ratio" =>
                    /\ \A j \in DOMAIN ndcg.dcg : ndcg.dcg[j].num >= 0
                    /\ \A j \in DOMAIN ndcg.ideal_dcg : ndcg.ideal_dcg[j].num >= 0
                    /\ \E j \in DOMAIN ndcg.ideal_dcg : ndcg.ideal_dcg[j].num > 0
                    /\ DcgAtMost(ndcg.dcg, ndcg.ideal_dcg)
              /\ SameOrder(predicted_rank_vector.list, original_rank_vector.list) =>
                    (ndcg.kind = "one" \/ ndcg.dcg = ndcg.ideal_dcg)

\* the rank of item i of v, normalized under 'ceiling', as an integer
CeilingRank(v, i) == units(ReferenceRank(v, "ceiling", i))

\* a call of ndgc_err whose ceiling-normalized predicted ranks are a
\* permutation of 1..n, n > 0
NdgcPermutationCall ==
    /\ fn = "ndgc_err"
    /\ Len(predicted_rank_vector.list) > 0
    /\ Len(original_rank_vector.list) = Len(predicted_rank_vector.list)
    /\ {CeilingRank(predicted_rank_vector.list, i) : i \in DOMAIN predicted_rank_vector.list}
          = 1..Len(predicted_rank_vector.list)

\* C27: when the ceiling-normalized predicted ranks are a permutation of
\* 1..n, the gain array (read off the terms of the DCG, which are the first
\* k gains in array order) holds at index r - 1 the value
\* (2**(n - g + 1) - 1) / 2**n of the one item with predicted rank r, g being
\* its normalized gold rank; every gain lies strictly between 0 and 1
C27_GainArray ==
    NdgcPermutationCall =>
        /\ result.raised = "none"
        /\ result.value.ndcg.kind = "ratio"
        /\ \E gains \in {result.value.ndcg.dcg}, n \in {Len(predicted_rank_vector.list)} :
              /\ Len(gains) = IF kwargs.k = 0 \/ kwargs.k > n THEN n ELSE kwargs.k
              /\ \A position \in DOMAIN gains :
                    /\ Cardinality({i \in 1..n :
                           CeilingRank(predicted_rank_vector.list, i) = position}) = 1
                    /\ gains[position].num > 0
                    /\ gains[position].num < gains[position].den
              /\ \A i \in 1..n :
                    CeilingRank(predicted_rank_vector.list, i) \in DOMAIN gains =>
                        gains[CeilingRank(predicted_rank_vector.list, i)] =
                            Frac(Pow2(n - CeilingRank(original_rank_vector.list, i) + 1) - 1,
                                 Pow2(n))

\* three items, no cut-off, the predicted ranks a permutation other than
\* 1, 2, 3, the gold ranks tied for the first place (rank 2 under 'ceiling'):
\* the array holds 1/8 and 3/8 twice
C27_Witness ==
    /\ NdgcPermutationCall
    /\ kwargs.k = 0
    /\ predicted_rank_vector.list = <<num(2), num(3), num(1)>>
    /\ ~TieFree(original_rank_vector.list)
    /\ result.raised = "none"
    /\ result.value.ndcg.dcg = <<Frac(1, 8), Frac(3, 8), Frac(3, 8)>>

\* the items whose ceiling-normalized predicted rank is the position
ItemsAt(position) ==
    {i \in DOMAIN predicted_rank_vector.list :
        CeilingRank(predicted_rank_vector.list, i) = position}

\* the gain array in predicted-position order: at each position the gain
\* (2**(n - g + 1) - 1) / 2**n of the last item ranked there, 0 where no item
\* is ranked
PositionGains ==
    [position \in DOMAIN predicted_rank_vector.list |->
        IF ItemsAt(position) = {} THEN Frac(0, 1)
        ELSE Frac(Pow2(Len(original_rank_vector.list)
                         - CeilingRank(original_rank_vector.list,
                                       CHOOSE i \in ItemsAt(position) :
                                           \A other \in ItemsAt(position) : other <= i)
                         + 1) - 1,
                  Pow2(Len(original_rank_vector.list)))]

\* the probability that the user has not stopped at the first j positions:
\* the product of 1 - gain over them
RECURSIVE NotStopped(_, _)
NotStopped(gains, j) ==
    IF j = 0 THEN Frac(1, 1)
    ELSE FMul(NotStopped(gains, j - 1), FSub(Frac(1, 1), gains[j]))

\* the sum over the first m positions j of NotStopped(j - 1) * gain[j] / j
RECURSIVE ErrOver(_, _)
ErrOver(gains, m) ==
    IF m = 0 THEN Frac(0, 1)
    ELSE FAdd(ErrOver(gains, m - 1),
              FDivInt(FMul(NotStopped(gains, m - 1), gains[m]), m))

NdgcReturned == fn = "ndgc_err" /\ result.raised = "none"

\* C28: ERR and DCG are taken over the gain array in predicted-position
\* order, not over the list as the ideal-DCG step sorts it: ERR is the sum
\* over all n positions j of p * gain[j] / (j + 1), p starting at 1 and
\* multiplied by 1 - gain[j] after each position, whatever k is, and the
\* terms of DCG are the first k entries of the array in that order
C28_ErrAndDcgInPositionOrder ==
    NdgcReturned =>
        \E gains \in {PositionGains}, n \in {Len(predicted_rank_vector.list)} :
            /\ result.value.err = ErrOver(gains, n)
            /\ result.value.ndcg.kind = "ratio"
            /\ result.value.ndcg.dcg =
                  [j \in 1..(IF kwargs.k = 0 \/ kwargs.k > n THEN n ELSE kwargs.k) |-> gains[j]]

\* three items cut off after the first, the gain array 3/8, 7/8, 1/8 neither
\* ascending nor descending: DCG has the one term 3/8 and ERR, over all three
\* positions, is 3/8 + (5/8)(7/8)/2 + (5/8)(1/8)(1/8)/3
C28_Witness ==
    /\ NdgcReturned
    /\ kwargs.k = 1
    /\ PositionGains = <<Frac(3, 8), Frac(7, 8), Frac(1, 8)>>
    /\ result.value.ndcg.dcg = <<Frac(3, 8)>>
    /\ result.value.ndcg.ideal_dcg = <<Frac(7, 8)>>
    /\ result.value.err = ErrOver(<<Frac(3, 8), Frac(7, 8), Frac(1, 8)>>, 3)
    /\ FLess(ErrOver(<<Frac(3, 8), Frac(7, 8), Frac(1, 8)>>, 1), result.value.err)

(***************************************************************************)
(* Further properties of kendall_tau (specification Spec)                  *)
(***************************************************************************)
\* the two vectors under the tie policy of the call, by the reference ranks
RefPredicted ==
    [i \in DOMAIN predicted_rank_vector.list |->
        ReferenceRank(predicted_rank_vector.list, kwargs.ties, i)]
RefOriginal ==
    [i \in DOMAIN original_rank_vector.list |->
        ReferenceRank(original_rank_vector.list, kwargs.ties, i)]

\* a call of kendall_tau with exclude_ties or penalize_predicted_ties off,
\* the gold ranks as given (not inverted) and without -1
NonDefaultFlagsCall ==
    /\ fn = "kendall_tau"
    /\ ~kwargs.exclude_ties \/ ~kwargs.penalize_predicted_ties
    /\ ~kwargs.invert_ranks
    /\ ~HasSentinel(original_rank_vector.list)

\* C26: for a gold vector without -1, with penalize_predicted_ties false a
\* pair with p_i = p_j that is not concordant counts neither as concordant
\* nor as discordant; with exclude_ties false a pair with g_i = g_j is
\* concordant when p_i = p_j and discordant when p_i # p_j; every other pair
\* that is not concordant is discordant (a pair with g_i = g_j counts nowhere
\* while exclude_ties is true)
C26_NonDefaultFlags ==
    NonDefaultFlagsCall =>
        \E g \in {RefOriginal}, p \in {RefPredicted} :
            \E agree \in {{pr \in IndexPairs :
                              \/ (g[pr[1]] > g[pr[2]] /\ p[pr[1]] > p[pr[2]])
                              \/ (g[pr[1]] < g[pr[2]] /\ p[pr[1]] < p[pr[2]])
                              \/ (/\ ~kwargs.exclude_ties
                                  /\ g[pr[1]] = g[pr[2]] /\ p[pr[1]] = p[pr[2]])}} :
                \E neither \in {{pr \in IndexPairs \ agree :
                                    \/ (kwargs.exclude_ties /\ g[pr[1]] = g[pr[2]])
                                    \/ (/\ ~kwargs.penalize_predicted_ties
                                        /\ p[pr[1]] = p[pr[2]])}} :
                    /\ result.value.concordant_count = Cardinality(agree)
                    /\ result.value.discordant_count =
                          Cardinality((IndexPairs \ agree) \ neither)
                    /\ ~kwargs.exclude_ties =>
                          \A pr \in IndexPairs :
                              (g[pr[1]] = g[pr[2]] /\ p[pr[1]] # p[pr[2]]) => pr \notin neither

\* both flags off, three items: one pair tied in gold only (discordant), one
\* tied in predicted only and not concordant (counted nowhere), one ordered
\* the same way in both (concordant)
C26_Witness ==
    /\ NonDefaultFlagsCall
    /\ ~kwargs.exclude_ties /\ ~kwargs.penalize_predicted_ties
    /\ Len(predicted_rank_vector.list) = 3
    /\ \E pr \in IndexPairs :
          /\ RefOriginal[pr[1]] = RefOriginal[pr[2]]
          /\ RefPredicted[pr[1]] # RefPredicted[pr[2]]
    /\ \E pr \in IndexPairs :
          /\ RefOriginal[pr[1]] # RefOriginal[pr[2]]
          /\ RefPredicted[pr[1]] = RefPredicted[pr[2]]
    /\ result.value.pairs = 3
    /\ result.value.concordant_count = 1
    /\ result.value.discordant_count = 1

\* C29 (as claimed): for tie-free predicted and gold vectors without -1,
\* kendall_tau with the gold ranks inverted returns the valid_pairs of the call
\* without inversion and its concordant and discordant counts swapped, tau
\* negated: no pair is dropped because a negated gold rank equals -1
C29_InversionOnlyFlipsOrder ==
    (/\ fn = "kendall_tau"
     /\ kwargs.invert_ranks
     /\ TieFree(predicted_rank_vector.list)
     /\ TieFree(original_rank_vector.list)
     /\ ~HasSentinel(original_rank_vector.list)) =>
        \E plain \in {kendall_tau(predicted_rank_vector, original_rank_vector,
                                   [kwargs EXCEPT !.invert_ranks = FALSE])} :
            /\ result.value.all_pairs_count = plain.all_pairs_count
            /\ result.value.concordant_count = plain.discordant_count
            /\ result.value.discordant_count = plain.concordant_count
            /\ plain.all_pairs_count > 0 =>
                  /\ result.value.tau.kind = "float"
                  /\ result.value.tau = Frac(-plain.tau.num, plain.tau.den)

(***************************************************************************)
(* Properties of allmetrics (specification AllMetricsSpec)                 *)
(***************************************************************************)
\* the outcomes of the five statistics computed one by one on the segments
\* and with the options of the call in the state
FiveOutcomes ==
    <<The({IF out.raised # "none" THEN out ELSE Return(dict(out.value)) :
             out \in {kendall_tau_set(predicted_rank_vectors, original_rank_vectors, kwargs)}}),
      The({IF out.raised # "none" THEN out ELSE Return(dict(out.value)) :
             out \in {mrr(predicted_rank_vectors, original_rank_vectors)}}),
      The({IF out.raised # "none" THEN out ELSE Return(bph_dict(out.value)) :
             out \in {best_predicted_vs_human(predicted_rank_vectors, original_rank_vectors)}}),
      The({IF out.raised # "none" THEN out ELSE Return(dict(out.value)) :
             out \in {avg_predicted_ranked(predicted_rank_vectors, original_rank_vectors)}}),
      The({IF out.raised # "none" THEN out ELSE Return(dict(out.value)) :
             out \in {avg_ndgc_err(predicted_rank_vectors, original_rank_vectors, kwargs)}})>>

\* C21 (as claimed): for the empty option bag and for every bag of
\* recognized options, allmetrics fails when one of the five statistics
\* fails and otherwise returns the union of their five mappings, whose key
\* sets are disjoint
C21_AllMetricsIsUnion ==
    fn = "allmetrics" =>
        \E five \in {FiveOutcomes} :
            IF \E i \in DOMAIN five : five[i].raised # "none"
            THEN result.raised # "none"
            ELSE /\ result.raised = "none"
                 /\ \A i, j \in DOMAIN five :
                       i # j => (DOMAIN five[i].value) \cap (DOMAIN five[j].value) = {}
                 /\ DOMAIN result.value = UNION {DOMAIN five[i].value : i \in DOMAIN five}
                 /\ \A i \in DOMAIN five :
                       \A key \in DOMAIN five[i].value :
                           result.value[key] = five[i].value[key]

(***************************************************************************)
(* Frame of the metric functions (specification FrameSpec)                 *)
(***************************************************************************)
\* the three segment-level functions with every option, and the two copying
\* methods, leave the segments of the state as they are; what the two
\* methods return is another object than their receiver, holding the
\* normalized or rounded values, the receiver still holding its own
ArgumentsLeftAlone ==
    \A i \in DOMAIN predicted_rank_vectors \cap DOMAIN original_rank_vectors :
        \E p \in {predicted_rank_vectors[i]}, o \in {original_rank_vectors[i]} :
            /\ \A kw \in OptionBags : kendall_tau_inputs(p, o, kw) = <<p, o>>
            /\ \A k \in 0..MaxK : ndgc_err_inputs(p, o, k) = <<p, o>>
            /\ \A t \in Policies \cup {"absent"} :
                  reciprocal_rank_inputs(p, o, [ties |-> t]) = <<p, o>>
            /\ \A v \in {p, o} :
                  /\ Ranking_integers_self(v) = v
                  /\ \E after \in {Ranking_integers_heap(<<v>>, 1)} :
                        /\ after.ref # 1
                        /\ after.heap[1] = v
                        /\ after.heap[after.ref] = Ranking_integers(v)
                  /\ \A t \in Policies :
                        /\ Ranking_normalize_self(v, t) = v
                        /\ \E after \in {Ranking_normalize_heap(<<v>>, 1, t)} :
                              /\ after.ref # 1
                              /\ after.heap[1] = v
                              /\ after.heap[after.ref] = Ranking_normalize(v, t)

\* C25: a call of a metric function (the five set-level functions, which
\* call the three segment-level ones, and allmetrics) leaves every input
\* Ranking with the same elements in the same order and the same
\* normalization tag, and Ranking.normalize and Ranking.integers leave their
\* receiver unchanged and return a new vector
C25_InputsReadOnly ==
    /\ [][Inputs' = Inputs]_vars
    /\ []ArgumentsLeftAlone

\* allmetrics has returned its mapping on segments one of which normalize()
\* would change, in its elements and in its tag
C25_Witness ==
    /\ fn = "allmetrics"
    /\ result.raised = "none"
    /\ \E i \in DOMAIN predicted_rank_vectors \cap DOMAIN original_rank_vectors :
          /\ Ranking_normalize(predicted_rank_vectors[i], "ceiling").list
                # predicted_rank_vectors[i].list
          /\ Ranking_normalize(original_rank_vectors[i], "ceiling").list
                # original_rank_vectors[i].list
          /\ predicted_rank_vectors[i].normalization = "unknown"

====
